---- MODULE Spec2Model ----
(***************************************************************************)
(* A model of the error classification, retry and batched-fetch layer of   *)
(* the StreamFlow airdrop front end:                                       *)
(*   types/errors (src/unnamed/part_000): ErrorCode, StreamFlowError,      *)
(*       createStreamFlowError, withRetry                                  *)
(*   lib/error-handler.ts: handleAsyncOperation(WithRetry)                 *)
(*   lib/streamflow.ts: getBatchUserAirdropLeafData                        *)
(*                                                                         *)
(* JavaScript values are records tagged by "kind"; a string is a sequence  *)
(* of one-character strings so that toLowerCase and includes are computed, *)
(* not assumed.                                                            *)
(***************************************************************************)
EXTENDS Integers, Sequences, FiniteSets, TLC

VARIABLES
    \* --- createStreamFlowError applied once and then to its own result
    classPc,        \* "input" | "once" | "twice"
    raw,            \* the value handed to the classifier
    ctxFirst,       \* context of the first call
    ctxSecond,      \* context of the second call
    classified,     \* createStreamFlowError(raw, ctxFirst)
    reclassified,   \* createStreamFlowError(classified, ctxSecond)
    \* --- one run of withRetry / handleAsyncOperation / handleAsyncOperationWithRetry
    entry,          \* which exported function was called
    opContext,      \* the wrapper's context argument
    config,         \* withRetry's merged RetryConfig
    pc,             \* "start" | "awaitOperation" | "sleeping" | "done"
    attempt,        \* the for loop's counter
    invocations,    \* how many times operation() was called
    delays,         \* the setTimeout delays so far, in order
    lastError,      \* withRetry's lastError
    lastThrown,     \* what the latest failed attempt threw
    lastResolved,   \* what the latest successful attempt resolved with
    failures,       \* failed attempts so far
    retryableFailures, \* failed attempts so far whose classification is retryable
    outcome,        \* the returned promise: pending, resolved(value) or rejected(reason)
    nextErrorId,    \* source of createErrorId's fresh identifiers
    now,            \* the clock read by new Date()
    \* --- one run of getBatchUserAirdropLeafData
    batchPc,        \* "start" | "awaitAll" | "done"
    airdropPublicKeys, \* the identifier list argument
    userWallet,     \* the userWalletPublicKeyString argument
    derivationFails,\* identifiers for which findProgramAddressSync throws
    claimStatusPdas,\* the per-identifier PDA records
    lookups,        \* per index: "none" | "pending" | "settled"
    lookupOutcome,  \* per index: what getClaim did once settled
    claimResults,   \* per index: the promise of the mapper's {publicKey, leafData}
    issued,         \* indices in the order getClaim was called
    settledOutOfOrder, \* some getClaim settled after one that was called later
    batchOutcome,   \* the returned promise of getBatchUserAirdropLeafData
    queryFnOutcome, \* the promise of useBatchUserAirdropData's queryFn, when it is the caller
    \* --- one call of getAirdrops, getAirdropDetails or getUserAirdropLeafData
    accessCall,     \* the function called, its arguments and its caller
    sdkCalls,       \* how many times the SDK client was called
    sdkReply,       \* what the latest SDK call resolved with
    logs,           \* the warn and error entries errorLogger.log wrote about records
    accessOutcome,  \* the returned promise of the exported function
    \* --- the state of AirdropPageContent that fetchUserLeaf writes
    errors,         \* useState<ErrorState>
    userLeafData,   \* useState<UserAirdropLeafData | null | undefined>
    loading,        \* useState<LoadingState>
    claimed,        \* useState(false)
    \* --- one query of useGetAirdropsQuery or useBatchUserAirdropData, or one
    \* --- rendering of ErrorDisplay
    hook,           \* the hook or component in use
    queryPc,        \* "idle" | "fetching" | "retryWait" | "settled" | "props" | "rendered"
    failureCount,   \* the query's count of failed runs of queryFn
    queryError,     \* query.error, or ErrorDisplay's error prop
    queryData,      \* query.data
    isFetching,     \* query.isFetching
    queryFnRuns,    \* how many times queryFn was run
    retryClicks,    \* how many times retryOperation was called
    failureReason,  \* query.failureReason: the error of the latest failed run
    retriedOn,      \* the error shown when a retry was last performed
    onRetry,        \* ErrorDisplay's onRetry prop
    tryAgainShown,  \* whether ErrorDisplay rendered its Try Again button
    \* --- AirdropPageContent: its props, its other state and its pending calls
    wallet,         \* useWallet().publicKey; connected exactly when it is present
    airdropPublicKeyString, \* useParams().id
    airdropData,    \* useState<AirdropDetailData | null | undefined>
    detailFetches,  \* the fetchDetails calls awaiting handleAsyncOperation
    leafFetches,    \* the fetchUserLeaf calls awaiting handleAsyncOperation
    fetchesStarted, \* how many fetches were started so far
    latestLeaf,     \* the fetchUserLeaf call started last, and the result it got
    claimPc,        \* handleClaim: "idle" | "awaitProof" | "awaitClaim" | "finished"
    claimCapture,   \* the airdropData and userLeafData handleClaim closed over
    claimedWritten, \* another handler wrote claimed while the submission was pending
    claimEnd,       \* the result of the submission and the state handleClaim left
    userRetries     \* how many times retryUserDataFetch ran

classVars == <<classPc, raw, ctxFirst, ctxSecond, classified, reclassified>>
retryVars == <<entry, opContext, config, pc, attempt, invocations, delays, lastError,
               lastThrown, lastResolved, failures, retryableFailures, outcome>>
batchVars == <<batchPc, airdropPublicKeys, userWallet, derivationFails, claimStatusPdas,
               lookups, lookupOutcome, claimResults, issued, settledOutOfOrder, batchOutcome,
               queryFnOutcome>>
accessVars == <<accessCall, sdkCalls, sdkReply, logs, accessOutcome, errors, userLeafData,
                loading, claimed>>
queryVars == <<hook, queryPc, failureCount, queryError, queryData, isFetching, queryFnRuns,
               retryClicks, failureReason, retriedOn, onRetry, tryAgainShown>>
pageVars == <<wallet, airdropPublicKeyString, airdropData, detailFetches, leafFetches, fetchesStarted, latestLeaf,
              claimPc, claimCapture, claimedWritten, claimEnd, userRetries>>
vars == <<classVars, retryVars, batchVars, accessVars, queryVars, pageVars, nextErrorId, now>>

----------------------------------------------------------------------------
(* Strings *)

LowerLetters == <<"a","b","c","d","e","f","g","h","i","j","k","l","m","n","o","p","q","r","s","t","u","v","w","x","y","z">>
UpperLetters == <<"A","B","C","D","E","F","G","H","I","J","K","L","M","N","O","P","Q","R","S","T","U","V","W","X","Y","Z">>

UpperToLower ==
    [c \in {UpperLetters[i] : i \in 1..Len(UpperLetters)} |->
        LowerLetters[CHOOSE i \in 1..Len(UpperLetters) : UpperLetters[i] = c]]
LowerToUpper ==
    [c \in {LowerLetters[i] : i \in 1..Len(LowerLetters)} |->
        UpperLetters[CHOOSE i \in 1..Len(LowerLetters) : LowerLetters[i] = c]]

LowerChar(c) == IF c \in DOMAIN UpperToLower THEN UpperToLower[c] ELSE c
UpperChar(c) == IF c \in DOMAIN LowerToUpper THEN LowerToUpper[c] ELSE c

\* A forgotten lower-casing: the message is matched as it is.
toLowerCaseOmitted(s) == s

\* String.prototype.toLowerCase on the letters A-Z
toLowerCase(s) == [i \in 1..Len(s) |-> LowerChar(s[i])]

\* String.prototype.includes
includes(s, pattern) ==
    \E i \in 0..(Len(s) - Len(pattern)) : SubSeq(s, i + 1, i + Len(pattern)) = pattern

NETWORK == <<"n","e","t","w","o","r","k">>
FETCH == <<"f","e","t","c","h">>
TIMEOUT == <<"t","i","m","e","o","u","t">>
ACCOUNT_DOES_NOT_EXIST == <<"a","c","c","o","u","n","t"," ","d","o","e","s"," ","n","o","t"," ","e","x","i","s","t">>
ACCOUNT_NOT_FOUND_TEXT == <<"a","c","c","o","u","n","t"," ","n","o","t"," ","f","o","u","n","d">>
INVALID_PUBLIC_KEY_TEXT == <<"i","n","v","a","l","i","d"," ","p","u","b","l","i","c"," ","k","e","y">>
INVALID_ADDRESS == <<"i","n","v","a","l","i","d"," ","a","d","d","r","e","s","s">>
INVALID_ACCOUNT_DATA_TEXT == <<"i","n","v","a","l","i","d"," ","a","c","c","o","u","n","t"," ","d","a","t","a">>
UNKNOWN_FALLBACK_TEXT == <<"A","n"," ","u","n","k","n","o","w","n"," ","e","r","r","o","r"," ","o","c","c","u","r","r","e","d">>
BOOM == <<"b","o","o","m">>

----------------------------------------------------------------------------
(* JavaScript values *)

Null == [kind |-> "null"]
Undefined == [kind |-> "undefined"]
JsString(chars) == [kind |-> "string", chars |-> chars]
JsOther(tag) == [kind |-> "other", tag |-> tag]
JsError(message) == [kind |-> "Error", message |-> message]

\* x == null (null or undefined): what "absent" means for a result field
IsAbsent(x) == x.kind \in {"null", "undefined"}

\* An object literal {...a, ...b}
Spread(a, b) == [k \in (DOMAIN a) \cup (DOMAIN b) |-> IF k \in DOMAIN b THEN b[k] ELSE a[k]]
EmptyContext == [k \in {} |-> Null]

----------------------------------------------------------------------------
(* types/errors: the taxonomy *)

ErrorCode == {"NETWORK_ERROR", "CONNECTION_TIMEOUT", "RPC_ERROR",
              "INVALID_PUBLIC_KEY", "ACCOUNT_NOT_FOUND", "INVALID_ACCOUNT_DATA",
              "DISTRIBUTOR_NOT_FOUND", "WALLET_NOT_CONNECTED", "WALLET_DISCONNECTED",
              "UNAUTHORIZED", "INVALID_DATA_FORMAT", "MISSING_REQUIRED_FIELD",
              "TYPE_VALIDATION_ERROR", "TRANSACTION_FAILED", "TRANSACTION_TIMEOUT",
              "UNKNOWN_ERROR", "INTERNAL_ERROR", "CONFIGURATION_ERROR"}

\* new StreamFlowError(code, message, context = {}, retryable = false) at time t
StreamFlowError(code, message, context, retryable, t) ==
    [kind |-> "StreamFlowError", name |-> "StreamFlowError", code |-> code,
     message |-> message, context |-> context, timestamp |-> t,
     retryable |-> retryable]

NetworkError(message, context, t) ==
    [StreamFlowError("NETWORK_ERROR", message, context, TRUE, t) EXCEPT !.name = "NetworkError"]

NotFoundError(code, message, context, t) ==
    [StreamFlowError(code, message, context, FALSE, t) EXCEPT !.name = "NotFoundError"]

\* error instanceof StreamFlowError
IsStreamFlowError(error) == error.kind = "StreamFlowError"

\* A pass-through that stamps the caller's context onto the error it was given.
PassThroughMerging(error, context) ==
    [error EXCEPT !.context = Spread(@, context)]

\* createStreamFlowError, the branch for an input that is already classified
PassThrough(error, context) == error

\* The message as the rules see it
MatchText(message) == toLowerCase(message)

\* message.includes('network') || message.includes('fetch')
MatchesNetwork(message) == includes(message, NETWORK) \/ includes(message, FETCH)

\* A timeout rule that compares the whole message.
MatchesTimeoutExactly(message) == message = TIMEOUT

\* message.includes('timeout')
MatchesTimeout(message) == includes(message, TIMEOUT)

\* A not-found rule that knows only the first of its two phrases.
MatchesNotFoundFirstPhrase(message) == includes(message, ACCOUNT_DOES_NOT_EXIST)

\* message.includes('account does not exist') || message.includes('account not found')
MatchesNotFound(message) ==
    includes(message, ACCOUNT_DOES_NOT_EXIST) \/ includes(message, ACCOUNT_NOT_FOUND_TEXT)

\* message.includes('invalid public key') || message.includes('invalid address')
MatchesInvalidKey(message) ==
    includes(message, INVALID_PUBLIC_KEY_TEXT) \/ includes(message, INVALID_ADDRESS)

\* message.includes('invalid account data')
MatchesInvalidData(message) == includes(message, INVALID_ACCOUNT_DATA_TEXT)

\* An unknown-error context that forgets the value it was built from.
UnknownContextWithoutOriginal(error, context) == context

\* { ...context, originalError: error } of the two UNKNOWN_ERROR branches
UnknownContext(error, context) == Spread(context, [originalError |-> error])

\* createStreamFlowError, the branch for a generic Error
ClassifyError(error, context, t) ==
    LET message == MatchText(error.message) IN
    IF MatchesNetwork(message)
    THEN NetworkError(error.message, Spread(context, [originalError |-> error]), t)
    ELSE IF MatchesTimeout(message)
    THEN StreamFlowError("CONNECTION_TIMEOUT", error.message, context, TRUE, t)
    ELSE IF MatchesNotFound(message)
    THEN NotFoundError("ACCOUNT_NOT_FOUND", error.message, context, t)
    ELSE IF MatchesInvalidKey(message)
    THEN StreamFlowError("INVALID_PUBLIC_KEY", error.message, context, FALSE, t)
    ELSE IF MatchesInvalidData(message)
    THEN StreamFlowError("INVALID_ACCOUNT_DATA", error.message, context, FALSE, t)
    ELSE StreamFlowError("UNKNOWN_ERROR", error.message, UnknownContext(error, context), TRUE, t)

\* createStreamFlowError, the branch for a value that is not an Error
ClassifyNonError(error, context, t) ==
    StreamFlowError("UNKNOWN_ERROR",
                    IF error.kind = "string" THEN error.chars ELSE UNKNOWN_FALLBACK_TEXT,
                    UnknownContext(error, context), TRUE, t)

createStreamFlowError(error, context, t) ==
    IF IsStreamFlowError(error) THEN PassThrough(error, context)
    ELSE IF error.kind = "Error" THEN ClassifyError(error, context, t)
    ELSE ClassifyNonError(error, context, t)

----------------------------------------------------------------------------
(* Inputs of the classifier *)

\* word with the letters at the positions in mask in upper case
WithUpperAt(word, mask) ==
    [i \in 1..Len(word) |-> IF i \in mask THEN UpperChar(word[i]) ELSE word[i]]

Capitalized(word) == WithUpperAt(word, {1})
AllUpper(word) == WithUpperAt(word, 1..Len(word))

Affixes == {<<>>, <<"R","P","C",":"," ">>}

\* Every letter-case spelling of "network" and of "fetch", alone and embedded
NetworkMessages ==
    UNION {{pre \o WithUpperAt(w, mask) \o suf :
                pre \in Affixes, suf \in Affixes, mask \in SUBSET (1..Len(w))} :
           w \in {NETWORK, FETCH}}

Phrases == {NETWORK, FETCH, TIMEOUT, ACCOUNT_DOES_NOT_EXIST, ACCOUNT_NOT_FOUND_TEXT,
            INVALID_PUBLIC_KEY_TEXT, INVALID_ADDRESS, INVALID_ACCOUNT_DATA_TEXT,
            BOOM, <<>>}

\* Messages made of one or two phrases, in lower case, capitalized or in upper case
PhraseMessages ==
    UNION {{p \o <<" ">> \o q, Capitalized(p \o <<" ">> \o q), AllUpper(p \o <<" ">> \o q)} :
           p \in Phrases, q \in Phrases}

Messages == NetworkMessages \cup PhraseMessages

\* Errors this code base throws already classified
ThrownStreamFlowErrors ==
    { StreamFlowError("MISSING_REQUIRED_FIELD", <<"r","e","q">>,
                      [fieldName |-> <<"k","e","y">>], FALSE, 0),
      StreamFlowError("INVALID_PUBLIC_KEY", <<"I","n","v","a","l","i","d"," ","k">>,
                      [fieldName |-> <<"k","e","y">>, originalError |-> JsError(BOOM)], FALSE, 0),
      StreamFlowError("WALLET_NOT_CONNECTED", <<"w","a","l","l","e","t">>,
                      [airdropCount |-> 2], FALSE, 0),
      NetworkError(NETWORK, EmptyContext, 0),
      StreamFlowError("RPC_ERROR", <<"r","p","c">>, EmptyContext, TRUE, 0) }

NonErrorValues ==
    { JsString(NETWORK), JsString(BOOM), JsString(<<>>), JsOther("number"),
      JsOther("object"), Null, Undefined }

RawValues == {JsError(m) : m \in Messages} \cup NonErrorValues \cup ThrownStreamFlowErrors

ClassifyContexts ==
    { EmptyContext,
      [operation |-> "getAirdrops", errorId |-> 1],
      [attempt |-> 0, maxRetries |-> 3],
      [originalError |-> JsOther("earlier"), attempt |-> 1] }

----------------------------------------------------------------------------
(* The classifier applied to an input and then to its own result *)

RetryIdle ==
    /\ entry = "none"
    /\ opContext = EmptyContext
    /\ config = EmptyContext
    /\ pc = "idle"
    /\ attempt = 0
    /\ invocations = 0
    /\ delays = <<>>
    /\ lastError = Undefined
    /\ lastThrown = Undefined
    /\ lastResolved = Undefined
    /\ failures = 0
    /\ retryableFailures = 0
    /\ outcome = [state |-> "pending"]

BatchIdle ==
    /\ batchPc = "idle"
    /\ airdropPublicKeys = <<>>
    /\ userWallet = Undefined
    /\ derivationFails = {}
    /\ claimStatusPdas = <<>>
    /\ lookups = <<>>
    /\ lookupOutcome = <<>>
    /\ claimResults = <<>>
    /\ issued = <<>>
    /\ settledOutOfOrder = FALSE
    /\ batchOutcome = [state |-> "pending"]
    /\ queryFnOutcome = [state |-> "notCalled"]

AccessIdle ==
    /\ accessCall = [fn |-> "none"]
    /\ sdkCalls = 0
    /\ sdkReply = Undefined
    /\ logs = <<>>
    /\ accessOutcome = [state |-> "pending"]
    /\ errors = [airdrop |-> Null, userLeaf |-> Null]
    /\ userLeafData = Undefined
    /\ loading = [airdrop |-> TRUE, userLeaf |-> FALSE]
    /\ claimed = FALSE

QueryIdle ==
    /\ hook = "none"
    /\ queryPc = "idle"
    /\ failureCount = 0
    /\ queryError = [kind |-> "null"]
    /\ queryData = [kind |-> "undefined"]
    /\ isFetching = FALSE
    /\ queryFnRuns = 0
    /\ retryClicks = 0
    /\ failureReason = [kind |-> "null"]
    /\ retriedOn = [kind |-> "null"]
    /\ onRetry = [kind |-> "undefined"]
    /\ tryAgainShown = FALSE

PageIdle ==
    /\ wallet = [kind |-> "null"]
    /\ airdropPublicKeyString = ""
    /\ airdropData = [kind |-> "undefined"]
    /\ detailFetches = {}
    /\ leafFetches = {}
    /\ fetchesStarted = 0
    /\ latestLeaf = [kind |-> "null"]
    /\ claimPc = "idle"
    /\ claimCapture = [kind |-> "null"]
    /\ claimedWritten = FALSE
    /\ claimEnd = [kind |-> "null"]
    /\ userRetries = 0

ClassifyIdle ==
    /\ classPc = "idle"
    /\ raw = Undefined
    /\ ctxFirst = EmptyContext
    /\ ctxSecond = EmptyContext
    /\ classified = Undefined
    /\ reclassified = Undefined

InitClassify ==
    /\ classPc = "input"
    /\ raw \in RawValues
    /\ ctxFirst \in ClassifyContexts
    /\ ctxSecond = EmptyContext
    /\ classified = Undefined
    /\ reclassified = Undefined
    /\ nextErrorId = 1
    /\ now = 1
    /\ RetryIdle
    /\ BatchIdle
    /\ AccessIdle
    /\ QueryIdle
    /\ PageIdle

\* createStreamFlowError(raw, ctxFirst)
ClassifyOnce ==
    /\ classPc = "input"
    /\ classified' = createStreamFlowError(raw, ctxFirst, now)
    /\ classPc' = "once"
    /\ now' = now + 1
    /\ UNCHANGED <<raw, ctxFirst, ctxSecond, reclassified, retryVars, batchVars, nextErrorId,
                   accessVars,
                   queryVars,
                   pageVars>>

\* createStreamFlowError(classified, ctxSecond), some time later
ClassifyAgain ==
    /\ classPc = "once"
    /\ \E context \in ClassifyContexts :
        /\ ctxSecond' = context
        /\ reclassified' = createStreamFlowError(classified, context, now)
    /\ classPc' = "twice"
    /\ now' = now + 1
    /\ UNCHANGED <<raw, ctxFirst, classified, retryVars, batchVars, nextErrorId, accessVars,
                   queryVars,
                   pageVars>>

NextClassify == ClassifyOnce \/ ClassifyAgain

SpecClassify == InitClassify /\ [][NextClassify]_vars

----------------------------------------------------------------------------
(* Claims about createStreamFlowError *)

\* C9: createStreamFlowError is idempotent: applied to its own result, with any
\* context and at any later time, it returns that result unchanged (same code,
\* message, context, timestamp, retryable); an input that is already a
\* StreamFlowError is returned unchanged, the supplied context not merged in.
C9_ClassifyIdempotent ==
    /\ classPc = "twice" => reclassified = classified
    /\ (classPc \in {"once", "twice"} /\ IsStreamFlowError(raw)) => classified = raw

\* C9 witness: a raw Error was classified with one context and its result
\* classified again with another, non-empty one.
C9_Witness ==
    /\ classPc = "twice"
    /\ raw.kind = "Error"
    /\ ctxSecond # EmptyContext
    /\ ctxSecond # ctxFirst
    /\ reclassified.timestamp < now - 1

\* The message contains "network" or "fetch" in some letter case
MentionsNetworkOrFetch(message) ==
    \E w \in {NETWORK, FETCH} : \E i \in 0..(Len(message) - Len(w)) :
        \A j \in 1..Len(w) : message[i + j] \in {w[j], UpperChar(w[j])}

\* C10: a generic Error whose message contains "network" or "fetch" in any
\* letter case is classified NETWORK_ERROR with retryable = true.
C10_NetworkClassified ==
    (classPc \in {"once", "twice"} /\ raw.kind = "Error" /\ MentionsNetworkOrFetch(raw.message))
        => (classified.code = "NETWORK_ERROR" /\ classified.retryable = TRUE)

\* C10 witness: a mixed-case spelling inside a longer message was classified.
C10_Witness ==
    /\ classPc = "once"
    /\ raw = JsError(<<"R","P","C",":"," ">> \o <<"f","E","t","C","h">> \o <<"R","P","C",":"," ">>)
    /\ classified.code = "NETWORK_ERROR"

\* The message contains the phrase w in some letter case
Mentions(message, w) ==
    \E i \in 0..(Len(message) - Len(w)) :
        \A j \in 1..Len(w) : message[i + j] \in {w[j], UpperChar(w[j])}

ClassifiedOnce == classPc \in {"once", "twice"}
RawIsGenericError == raw.kind = "Error"

\* C11 as stated: every generic Error whose message contains "timeout" is
\* classified CONNECTION_TIMEOUT with retryable = true.
C11_TimeoutClassified ==
    (ClassifiedOnce /\ RawIsGenericError /\ includes(raw.message, TIMEOUT))
        => (classified.code = "CONNECTION_TIMEOUT" /\ classified.retryable = TRUE)

\* C11 amended: a generic Error whose message contains "timeout" (in any letter
\* case) and neither "network" nor "fetch" is classified CONNECTION_TIMEOUT with
\* retryable = true; when the message also contains "network" or "fetch" the
\* earlier rule wins and it is NETWORK_ERROR, retryable = true as well.
C11_TimeoutAfterNetwork ==
    (ClassifiedOnce /\ RawIsGenericError /\ Mentions(raw.message, TIMEOUT)) =>
        /\ classified.retryable = TRUE
        /\ classified.message = raw.message
        /\ classified.code =
              (IF Mentions(raw.message, NETWORK) \/ Mentions(raw.message, FETCH)
               THEN "NETWORK_ERROR" ELSE "CONNECTION_TIMEOUT")

\* C11 witness: "Timeout boom" was classified CONNECTION_TIMEOUT.
C11_Witness ==
    /\ classPc = "once"
    /\ raw = JsError(Capitalized(TIMEOUT \o <<" ">> \o BOOM))
    /\ classified.code = "CONNECTION_TIMEOUT"
    /\ classified.retryable = TRUE

\* The message contains one of the two not-found phrases in some letter case
MentionsNotFound(message) ==
    Mentions(message, ACCOUNT_DOES_NOT_EXIST) \/ Mentions(message, ACCOUNT_NOT_FOUND_TEXT)

\* C12 as stated: every generic Error whose message contains "account does not
\* exist" or "account not found" is classified ACCOUNT_NOT_FOUND with
\* retryable = false.
C12_NotFoundClassified ==
    (ClassifiedOnce /\ RawIsGenericError
        /\ (includes(raw.message, ACCOUNT_DOES_NOT_EXIST)
            \/ includes(raw.message, ACCOUNT_NOT_FOUND_TEXT)))
        => (classified.code = "ACCOUNT_NOT_FOUND" /\ classified.retryable = FALSE)

\* C12 amended: a generic Error whose message contains "account does not exist"
\* or "account not found" (in any letter case) and none of "network", "fetch",
\* "timeout" is classified ACCOUNT_NOT_FOUND with retryable = false; when it also
\* contains "network" or "fetch" it is NETWORK_ERROR, otherwise when it also
\* contains "timeout" it is CONNECTION_TIMEOUT, both with retryable = true.
C12_NotFoundAfterEarlierRules ==
    (ClassifiedOnce /\ RawIsGenericError /\ MentionsNotFound(raw.message)) =>
        /\ classified.message = raw.message
        /\ IF Mentions(raw.message, NETWORK) \/ Mentions(raw.message, FETCH)
           THEN classified.code = "NETWORK_ERROR" /\ classified.retryable = TRUE
           ELSE IF Mentions(raw.message, TIMEOUT)
           THEN classified.code = "CONNECTION_TIMEOUT" /\ classified.retryable = TRUE
           ELSE /\ classified.code = "ACCOUNT_NOT_FOUND"
                /\ classified.retryable = FALSE
                /\ classified.name = "NotFoundError"

\* C12 witness: "ACCOUNT NOT FOUND BOOM" was classified ACCOUNT_NOT_FOUND.
C12_Witness ==
    /\ classPc = "once"
    /\ raw = JsError(AllUpper(ACCOUNT_NOT_FOUND_TEXT \o <<" ">> \o BOOM))
    /\ classified.code = "ACCOUNT_NOT_FOUND"
    /\ classified.retryable = FALSE

\* The message contains none of the phrases the rules look for
MentionsNoRule(message) ==
    \A w \in {NETWORK, FETCH, TIMEOUT, ACCOUNT_DOES_NOT_EXIST, ACCOUNT_NOT_FOUND_TEXT,
              INVALID_PUBLIC_KEY_TEXT, INVALID_ADDRESS, INVALID_ACCOUNT_DATA_TEXT} :
        ~Mentions(message, w)

\* The value is neither an Error nor a StreamFlowError
RawIsNotAnError == raw.kind \notin {"Error", "StreamFlowError"}

\* C13: a raw value that matches no rule (a generic Error whose message contains
\* none of the listed phrases, or a value that is not an Error) is classified
\* UNKNOWN_ERROR with retryable = true and context.originalError the raw value
\* itself, also when the caller's context had an originalError of its own; the
\* message of a non-Error is the value when it is a string and "An unknown error
\* occurred" otherwise, that of an Error is the Error's message.
C13_UnknownFallback ==
    (ClassifiedOnce /\ ((RawIsGenericError /\ MentionsNoRule(raw.message)) \/ RawIsNotAnError)) =>
        /\ classified.code = "UNKNOWN_ERROR"
        /\ classified.retryable = TRUE
        /\ "originalError" \in DOMAIN classified.context
        /\ classified.context.originalError = raw
        /\ \A k \in DOMAIN ctxFirst :
              k # "originalError" => classified.context[k] = ctxFirst[k]
        /\ classified.message =
              (IF raw.kind = "Error" THEN raw.message
               ELSE IF raw.kind = "string" THEN raw.chars
               ELSE UNKNOWN_FALLBACK_TEXT)

\* C13 witness: null was classified with a context that already held an
\* originalError.
C13_Witness ==
    /\ classPc = "once"
    /\ raw = Null
    /\ "originalError" \in DOMAIN ctxFirst
    /\ classified.code = "UNKNOWN_ERROR"
    /\ classified.message = UNKNOWN_FALLBACK_TEXT
    /\ classified.context.originalError = Null

\* C13 witness of the Error case: a generic Error matching no rule.
C13_WitnessError ==
    /\ classPc = "once"
    /\ raw = JsError(BOOM \o <<" ">> \o BOOM)
    /\ classified.code = "UNKNOWN_ERROR"
    /\ classified.context.originalError = raw

----------------------------------------------------------------------------
(* types/errors: withRetry; lib/error-handler.ts: the operation wrappers *)

MaxRetriesBound == 3

DEFAULT_RETRY_CONFIG ==
    [maxRetries |-> 3, baseDelay |-> 1000, maxDelay |-> 10000, exponentialBackoff |-> TRUE]

\* const {...} = { ...DEFAULT_RETRY_CONFIG, ...config }
MergeConfig(partial) == Spread(DEFAULT_RETRY_CONFIG, partial)

Min(a, b) == IF a <= b THEN a ELSE b

\* A back-off that doubles without the cap.
BackoffDelayUncapped(cfg, n) ==
    IF cfg.exponentialBackoff THEN cfg.baseDelay * (2 ^ n) ELSE cfg.baseDelay

\* let delay = baseDelay; if (exponentialBackoff) delay = Math.min(baseDelay * 2^attempt, maxDelay)
BackoffDelay(cfg, n) ==
    IF cfg.exponentialBackoff
    THEN Min(cfg.baseDelay * (2 ^ n), cfg.maxDelay)
    ELSE cfg.baseDelay

\* A loop that stops one attempt early.
LoopContinuesExclusive(n, maxRetries) == n < maxRetries

\* for (...; attempt <= maxRetries; ...)
LoopContinues(n, maxRetries) == n <= maxRetries

\* A retry decision that looks at the attempt count only.
ShouldThrowIgnoringRetryable(err, n, maxRetries) == n = maxRetries

\* if (!lastError.retryable || attempt === maxRetries) throw lastError
ShouldThrow(err, n, maxRetries) == (~err.retryable) \/ n = maxRetries

\* A catch block that keeps the first classified error.
KeepFirstError(prev, thrown, n, maxRetries, t) ==
    IF IsStreamFlowError(prev) THEN prev
    ELSE createStreamFlowError(thrown, [attempt |-> n, maxRetries |-> maxRetries], t)

\* A classification that leaves the attempt index out of the context.
NextLastErrorWithoutAttempt(prev, thrown, n, maxRetries, t) ==
    createStreamFlowError(thrown, [maxRetries |-> maxRetries], t)

\* lastError = createStreamFlowError(error, { attempt, maxRetries })
NextLastError(prev, thrown, n, maxRetries, t) ==
    createStreamFlowError(thrown, [attempt |-> n, maxRetries |-> maxRetries], t)

Pending == [state |-> "pending"]
Resolved(value) == [state |-> "resolved", value |-> value]
Rejected(reason) == [state |-> "rejected", reason |-> reason]

\* return { data, error: null }
SuccessResult(data) == [data |-> data, error |-> Null]

\* A failure result that also carries a value.
FailureResultWithData(err) == [data |-> JsOther("partial"), error |-> err]

\* return { data: null, error: streamFlowError }
FailureResult(err) == [data |-> Null, error |-> err]

\* A catch block that logs and re-raises.
CatchAndRethrow(err) == Rejected(err)

\* The wrappers' catch block: the classified error is logged and returned
CatchAndReturn(err) == Resolved(FailureResult(err))

OperationName == "getAirdrops"

\* handleAsyncOperation's catch: classify with the operation name and a fresh errorId
WrapperClassify(thrown, operationName, context, id, t) ==
    createStreamFlowError(thrown, Spread(context, [operation |-> operationName, errorId |-> id]), t)

\* handleAsyncOperationWithRetry's catch: error instanceof StreamFlowError ? error : classify
RetryWrapperClassify(thrown, operationName, context, id, t) ==
    IF IsStreamFlowError(thrown) THEN thrown
    ELSE WrapperClassify(thrown, operationName, context, id, t)

\* What the function called completes with when withRetry throws err
RetryThrows(err) ==
    IF entry = "withRetry" THEN Rejected(err)
    ELSE CatchAndReturn(RetryWrapperClassify(err, OperationName, opContext, nextErrorId, now))

\* What the function called completes with when the operation resolves with value
CompletesWith(value) ==
    IF entry = "withRetry" THEN Resolved(value) ELSE Resolved(SuccessResult(value))

Entries == {"withRetry", "handleAsyncOperation", "handleAsyncOperationWithRetry"}

BaseDelays == {1000, 3000}
MaxDelays == {2000, 10000}

\* The config argument: absent, partial (as getAirdrops passes it) or complete
PartialConfigs ==
    {EmptyContext, [maxRetries |-> 2, baseDelay |-> 1000]}
    \cup {[maxRetries |-> m] : m \in 0..MaxRetriesBound}
    \cup {[exponentialBackoff |-> FALSE]}
    \cup {[maxRetries |-> m, baseDelay |-> b, maxDelay |-> d, exponentialBackoff |-> e] :
            m \in 0..MaxRetriesBound, b \in BaseDelays, d \in MaxDelays, e \in BOOLEAN}

OperationContexts == {EmptyContext, [publicKeyString |-> "D1"]}

\* What an operation may resolve with
ResolvedValues == {Null, Undefined, JsOther("dataA"), JsOther("dataB")}

\* What an operation may throw
ThrownValues ==
    {JsError(m) : m \in {NETWORK, Capitalized(TIMEOUT), ACCOUNT_NOT_FOUND_TEXT,
                         INVALID_ACCOUNT_DATA_TEXT, BOOM}}
    \cup {JsString(BOOM), Null}
    \cup ThrownStreamFlowErrors

InitRetry ==
    /\ entry \in Entries
    /\ opContext \in (IF entry = "withRetry" THEN {EmptyContext} ELSE OperationContexts)
    /\ config \in (IF entry = "handleAsyncOperation" THEN {MergeConfig(EmptyContext)}
                   ELSE {MergeConfig(c) : c \in PartialConfigs})
    /\ pc = "start"
    /\ attempt = 0
    /\ invocations = 0
    /\ delays = <<>>
    /\ lastError = Undefined
    /\ lastThrown = Undefined
    /\ lastResolved = Undefined
    /\ failures = 0
    /\ retryableFailures = 0
    /\ outcome = Pending
    /\ nextErrorId = 1
    /\ now = 1
    /\ ClassifyIdle
    /\ BatchIdle
    /\ AccessIdle
    /\ QueryIdle
    /\ PageIdle

\* The function is entered and runs to its first await: operation() is called
\* (inside withRetry's loop at attempt 0, or directly by handleAsyncOperation).
Begin ==
    /\ pc = "start"
    /\ IF entry = "handleAsyncOperation" \/ LoopContinues(attempt, config.maxRetries)
       THEN /\ invocations' = invocations + 1
            /\ pc' = "awaitOperation"
            /\ UNCHANGED outcome
       ELSE /\ outcome' = RetryThrows(lastError)
            /\ pc' = "done"
            /\ UNCHANGED invocations
    /\ UNCHANGED <<entry, opContext, config, attempt, delays, lastError, lastThrown,
                   lastResolved, failures, retryableFailures, nextErrorId, now,
                   classVars, batchVars, accessVars,
                   queryVars,
                   pageVars>>

\* The awaited operation() resolves
OperationResolves ==
    /\ pc = "awaitOperation"
    /\ \E value \in ResolvedValues :
        /\ lastResolved' = value
        /\ outcome' = CompletesWith(value)
    /\ pc' = "done"
    /\ UNCHANGED <<entry, opContext, config, attempt, invocations, delays, lastError,
                   lastThrown, failures, retryableFailures, nextErrorId, now,
                   classVars, batchVars, accessVars,
                   queryVars,
                   pageVars>>

\* The awaited operation() rejects inside handleAsyncOperation
OperationRejectsPlain ==
    /\ pc = "awaitOperation"
    /\ entry = "handleAsyncOperation"
    /\ \E thrown \in ThrownValues :
        LET err == WrapperClassify(thrown, OperationName, opContext, nextErrorId, now) IN
        /\ lastThrown' = thrown
        /\ retryableFailures' = retryableFailures + (IF err.retryable THEN 1 ELSE 0)
        /\ outcome' = CatchAndReturn(err)
    /\ failures' = failures + 1
    /\ nextErrorId' = nextErrorId + 1
    /\ now' = now + 1
    /\ pc' = "done"
    /\ UNCHANGED <<entry, opContext, config, attempt, invocations, delays, lastError,
                   lastResolved, classVars, batchVars, accessVars,
                   queryVars,
                   pageVars>>

\* The awaited operation() rejects inside withRetry: the catch block of the loop
OperationRejectsInRetry ==
    /\ pc = "awaitOperation"
    /\ entry # "handleAsyncOperation"
    /\ \E thrown \in ThrownValues :
        LET err == NextLastError(lastError, thrown, attempt, config.maxRetries, now) IN
        /\ lastThrown' = thrown
        /\ lastError' = err
        /\ retryableFailures' = retryableFailures + (IF err.retryable THEN 1 ELSE 0)
        /\ IF ShouldThrow(err, attempt, config.maxRetries)
           THEN /\ outcome' = RetryThrows(err)
                /\ pc' = "done"
                /\ UNCHANGED delays
           ELSE /\ delays' = Append(delays, BackoffDelay(config, attempt))
                /\ pc' = "sleeping"
                /\ UNCHANGED outcome
    /\ failures' = failures + 1
    /\ now' = now + 1
    /\ UNCHANGED <<entry, opContext, config, attempt, invocations, lastResolved,
                   nextErrorId, classVars, batchVars, accessVars,
                   queryVars,
                   pageVars>>

\* The back-off timer fires: attempt++, the loop test, and the next operation()
TimerFires ==
    /\ pc = "sleeping"
    /\ attempt' = attempt + 1
    /\ IF LoopContinues(attempt + 1, config.maxRetries)
       THEN /\ invocations' = invocations + 1
            /\ pc' = "awaitOperation"
            /\ UNCHANGED outcome
       ELSE /\ outcome' = RetryThrows(lastError)
            /\ pc' = "done"
            /\ UNCHANGED invocations
    /\ now' = now + 1
    /\ UNCHANGED <<entry, opContext, config, delays, lastError, lastThrown, lastResolved,
                   failures, retryableFailures, nextErrorId, classVars, batchVars,
                   accessVars,
                   queryVars,
                   pageVars>>

Next == Begin \/ OperationResolves \/ OperationRejectsPlain \/ OperationRejectsInRetry
        \/ TimerFires

Init == InitRetry

Spec == Init /\ [][Next]_vars

----------------------------------------------------------------------------
(* Claims about the wrappers and withRetry *)

UsesRetry == entry \in {"withRetry", "handleAsyncOperationWithRetry"}
IsWrapper == entry \in {"handleAsyncOperation", "handleAsyncOperationWithRetry"}
Finished == pc = "done"
\* The last invocation of the operation resolved / rejected
Succeeded == Finished /\ failures < invocations
Failed == Finished /\ invocations > 0 /\ failures = invocations

\* The error the finished call hands to its caller
SurfacedError ==
    IF outcome.state = "rejected" THEN outcome.reason ELSE outcome.value.error

\* The classification of what the last failed attempt threw, context and time aside
ExpectedClassification == createStreamFlowError(lastThrown, EmptyContext, 0)

SameClassification(e, f) ==
    /\ e.code = f.code
    /\ e.message = f.message
    /\ e.retryable = f.retryable
    /\ e.name = f.name

\* C1 as stated: the result of handleAsyncOperation and of
\* handleAsyncOperationWithRetry has exactly one of {data, error} present,
\* whatever the operation resolved with (null and undefined included) or threw.
C1_ExactlyOnePresent ==
    (Finished /\ IsWrapper) =>
        (IsAbsent(outcome.value.data) # IsAbsent(outcome.value.error))

\* C1 amended: data and error are never both present; error is present exactly
\* when the operation failed, and data is then null; on success data is the value
\* the operation resolved with, so both are absent exactly when that value is
\* null or undefined.
C1_ResultShape ==
    (Finished /\ IsWrapper) =>
        /\ outcome.state = "resolved"
        /\ ~(~IsAbsent(outcome.value.data) /\ ~IsAbsent(outcome.value.error))
        /\ (~IsAbsent(outcome.value.error)) <=> Failed
        /\ Failed => outcome.value.data = Null
        /\ Succeeded => (outcome.value.data = lastResolved /\ outcome.value.error = Null)
        /\ (IsAbsent(outcome.value.data) /\ IsAbsent(outcome.value.error))
              <=> (Succeeded /\ IsAbsent(lastResolved))

\* C1 witness: the retrying wrapper returned after a failed attempt and a
\* successful one that resolved with null.
C1_Witness ==
    /\ Finished
    /\ entry = "handleAsyncOperationWithRetry"
    /\ failures >= 1
    /\ Succeeded
    /\ lastResolved = Null
    /\ outcome.value = [data |-> Null, error |-> Null]

\* C2: handleAsyncOperation and handleAsyncOperationWithRetry never reject:
\* whatever the operation throws, the call resolves with a result whose error
\* field is the classified error (a StreamFlowError with the code, message and
\* retryability the classifier gives the thrown value).
C2_WrappersNeverReject ==
    IsWrapper =>
        /\ outcome.state # "rejected"
        /\ Finished => outcome.state = "resolved"
        /\ Failed =>
            /\ IsStreamFlowError(outcome.value.error)
            /\ SameClassification(outcome.value.error, ExpectedClassification)

\* C2 witness: the retrying wrapper returned after its operation threw a value
\* that is not an Error on a retried attempt.
C2_Witness ==
    /\ Finished
    /\ entry = "handleAsyncOperationWithRetry"
    /\ failures >= 2
    /\ Failed
    /\ lastThrown = JsString(BOOM)
    /\ outcome.value.error.code = "UNKNOWN_ERROR"

\* C5: withRetry invokes the operation at most maxRetries + 1 times (attempt
\* indices 0..maxRetries), stops at the first successful attempt and returns its
\* value, and makes exactly maxRetries + 1 invocations when every attempt fails
\* with a retryable failure (4 with the default maxRetries = 3).
C5_AttemptCount ==
    UsesRetry =>
        /\ invocations <= config.maxRetries + 1
        /\ attempt \in 0..config.maxRetries
        /\ pc # "start" => invocations = attempt + 1
        /\ invocations - failures \in {0, 1}
        /\ Succeeded =>
            /\ invocations = failures + 1
            /\ outcome = CompletesWith(lastResolved)
            /\ outcome.state = "resolved"
        /\ (Failed /\ retryableFailures = failures) =>
            /\ invocations = config.maxRetries + 1
            /\ config = DEFAULT_RETRY_CONFIG => invocations = 4

\* C5 witness: withRetry with the default configuration gave up after four
\* attempts that all failed with a retryable failure.
C5_Witness ==
    /\ Finished
    /\ entry = "withRetry"
    /\ config = DEFAULT_RETRY_CONFIG
    /\ failures = 4
    /\ retryableFailures = 4
    /\ invocations = 4

\* C6: when an attempt of withRetry fails with a failure classified as not
\* retryable, there is no further invocation and no back-off wait: the classified
\* error is surfaced at once; an operation that always fails non-retryably is
\* invoked exactly once, for any maxRetries.
C6_NonRetryableStops ==
    UsesRetry =>
        /\ (failures > 0 /\ ~lastError.retryable) =>
            /\ Finished
            /\ invocations = failures
            /\ Len(delays) = failures - 1
            /\ SurfacedError = lastError
        /\ (failures > 0 /\ retryableFailures = 0) =>
            /\ Finished
            /\ invocations = 1
            /\ delays = <<>>

\* C6 witness: withRetry configured with three retries ended after a single
\* attempt that failed with "account not found".
C6_Witness ==
    /\ Finished
    /\ entry = "withRetry"
    /\ config.maxRetries = 3
    /\ invocations = 1
    /\ lastThrown = JsError(ACCOUNT_NOT_FOUND_TEXT)
    /\ outcome = Rejected(lastError)
    /\ lastError.code = "ACCOUNT_NOT_FOUND"

\* The wait the retry configuration prescribes after failed attempt n
ClaimedDelay(n) ==
    IF config.exponentialBackoff
    THEN (IF config.baseDelay * (2 ^ n) <= config.maxDelay
          THEN config.baseDelay * (2 ^ n) ELSE config.maxDelay)
    ELSE config.baseDelay

\* C7: the wait after failed attempt n (n < maxRetries) is
\* min(baseDelay * 2^n, maxDelay) with exponential back-off and baseDelay
\* otherwise; with the defaults the waits are 1000, 2000, 4000 ms; no wait
\* follows the final attempt.
C7_BackoffDelays ==
    UsesRetry =>
        /\ \A n \in 0..(Len(delays) - 1) : delays[n + 1] = ClaimedDelay(n)
        /\ Len(delays) <= config.maxRetries
        /\ Len(delays) = attempt + (IF pc = "sleeping" THEN 1 ELSE 0)
        /\ (Finished /\ invocations > 0) => Len(delays) = invocations - 1
        /\ config = DEFAULT_RETRY_CONFIG =>
            delays = SubSeq(<<1000, 2000, 4000>>, 1, Len(delays))

\* C7 witness: a run with the defaults that waited 1000, 2000 and 4000 ms and
\* ended with its fourth attempt.
C7_Witness ==
    /\ Finished
    /\ UsesRetry
    /\ config = DEFAULT_RETRY_CONFIG
    /\ delays = <<1000, 2000, 4000>>
    /\ invocations = 4

\* C7 witness of the cap: a wait was cut down to maxDelay.
C7_CapReached ==
    /\ UsesRetry
    /\ config.exponentialBackoff
    /\ \E n \in 1..Len(delays) :
        delays[n] = config.maxDelay /\ config.baseDelay * (2 ^ (n - 1)) > config.maxDelay

\* C8: when withRetry exhausts its attempts, the error it rejects with is the
\* classification of the failure of the last attempt (index maxRetries), not of
\* an earlier one, and whatever withRetry rejects with is a StreamFlowError.
C8_LastErrorSurfaced ==
    UsesRetry =>
        /\ (Finished /\ outcome.state = "rejected") => IsStreamFlowError(outcome.reason)
        /\ (Failed /\ failures = config.maxRetries + 1) =>
            /\ IsStreamFlowError(SurfacedError)
            /\ SurfacedError = lastError
            /\ SameClassification(SurfacedError, ExpectedClassification)
            /\ IF IsStreamFlowError(lastThrown)
               THEN SurfacedError = lastThrown
               ELSE /\ SurfacedError.context.attempt = config.maxRetries
                    /\ SurfacedError.timestamp = now - 1

\* C8 witness: withRetry rejected after three failed attempts, the last of which
\* threw a plain Error.
C8_Witness ==
    /\ Finished
    /\ entry = "withRetry"
    /\ config.maxRetries = 2
    /\ failures = 3
    /\ lastThrown = JsError(BOOM)
    /\ outcome.state = "rejected"
    /\ outcome.reason.context.attempt = 2

----------------------------------------------------------------------------
(* lib/streamflow.ts: getBatchUserAirdropLeafData *)

MaxIds == 3

\* Public keys are one-character strings; "X" and "" are not valid base58 keys.
ValidPublicKeys == {"A", "B", "C", "U"}
Identifiers == {"A", "B", "C", "X"}
\* Identifiers the address derivation may fail for
DerivationFailureCandidates == {"C"}

JsText(s) == [kind |-> "string", text |-> s]
JsArray(items) == [kind |-> "array", items |-> items]
JsBool(b) == [kind |-> "boolean", b |-> b]
BN(n) == [kind |-> "BN", n |-> n]
KeyChars(k) == IF k = "" THEN <<>> ELSE <<k>>

DISTRIBUTOR_FIELD == <<"d","i","s","t","r","i","b","u","t","o","r"," ","p","u","b","l","i","c","K","e","y">>
USER_FIELD == <<"u","s","e","r"," ","w","a","l","l","e","t"," ","p","u","b","l","i","c","K","e","y">>
LIST_ARG == <<"a","i","r","d","r","o","p","P","u","b","l","i","c","K","e","y","s">>
USER_ARG == <<"u","s","e","r","W","a","l","l","e","t","P","u","b","l","i","c","K","e","y","S","t","r","i","n","g">>
INVALID_PREFIX == <<"I","n","v","a","l","i","d"," ">>
REQUIRED_PREFIX == <<"R","e","q","u","i","r","e","d"," ","f","i","e","l","d"," ","'">>
REQUIRED_SUFFIX == <<"'"," ","i","s"," ","m","i","s","s","i","n","g">>
INVALID_KEY_INPUT == <<"I","n","v","a","l","i","d"," ","p","u","b","l","i","c"," ","k","e","y"," ","i","n","p","u","t">>
NO_NONCE == <<"U","n","a","b","l","e"," ","t","o"," ","f","i","n","d"," ","a"," ","v","i","a","b","l","e"," ","p","r","o","g","r","a","m"," ","a","d","d","r","e","s","s"," ","n","o","n","c","e">>

\* A function call either returns a value or throws
Returned(value) == [threw |-> FALSE, value |-> value]
Threw(error) == [threw |-> TRUE, error |-> error]

\* validateRequired(value, fieldName): throws when value is null or undefined
validateRequired(value, fieldName, t) ==
    IF IsAbsent(value)
    THEN Threw(StreamFlowError("MISSING_REQUIRED_FIELD",
                               REQUIRED_PREFIX \o fieldName \o REQUIRED_SUFFIX,
                               [fieldName |-> fieldName], FALSE, t))
    ELSE Returned(value)

\* A validatePublicKey whose error is marked retryable.
validatePublicKeyRetryable(keyString, fieldName, t) ==
    IF keyString \in ValidPublicKeys
    THEN Returned([kind |-> "PublicKey", key |-> keyString])
    ELSE Threw(StreamFlowError("INVALID_PUBLIC_KEY",
                               INVALID_PREFIX \o fieldName \o <<":", " ">> \o KeyChars(keyString),
                               [fieldName |-> fieldName, keyString |-> keyString,
                                originalError |-> JsError(INVALID_KEY_INPUT)],
                               TRUE, t))

\* validatePublicKey(keyString, fieldName): new PublicKey(keyString), its failure
\* rethrown as INVALID_PUBLIC_KEY
validatePublicKey(keyString, fieldName, t) ==
    IF keyString \in ValidPublicKeys
    THEN Returned([kind |-> "PublicKey", key |-> keyString])
    ELSE Threw(StreamFlowError("INVALID_PUBLIC_KEY",
                               INVALID_PREFIX \o fieldName \o <<":", " ">> \o KeyChars(keyString),
                               [fieldName |-> fieldName, keyString |-> keyString,
                                originalError |-> JsError(INVALID_KEY_INPUT)],
                               FALSE, t))

\* One element of claimStatusPdas: the try/catch around the derivation
GeneratePda(publicKey, userKey, t) ==
    LET distributorPk == validatePublicKey(publicKey, DISTRIBUTOR_FIELD, t) IN
    IF distributorPk.threw
    THEN [publicKey |-> publicKey, claimStatusPda |-> Null,
          error |-> createStreamFlowError(distributorPk.error, EmptyContext, t)]
    ELSE IF publicKey \in derivationFails
    THEN [publicKey |-> publicKey, claimStatusPda |-> Null,
          error |-> createStreamFlowError(JsError(NO_NONCE), EmptyContext, t)]
    ELSE [publicKey |-> publicKey,
          claimStatusPda |-> [kind |-> "pda", distributor |-> publicKey, user |-> userKey],
          error |-> Null]

\* The mapper up to its first await: an entry without a PDA is answered at once,
\* for the others client.getClaim is called
StartLookup(pda) ==
    IF (~IsAbsent(pda.error)) \/ IsAbsent(pda.claimStatusPda)
    THEN Resolved([publicKey |-> pda.publicKey, leafData |-> Null])
    ELSE Pending

\* isStreamflowClaimStatus
isStreamflowClaimStatus(value) ==
    /\ value.kind = "object"
    /\ value.unlockedAmount.kind = "BN"
    /\ value.lockedAmount.kind = "BN"
    /\ value.closed.kind = "boolean"

\* const leafData = { totalAllocation: unlocked.add(locked), claimedAmount, isClaimed }
LeafData(claimStatus) ==
    [kind |-> "leafData",
     totalAllocation |-> BN(claimStatus.unlockedAmount.n + claimStatus.lockedAmount.n),
     claimedAmount |-> claimStatus.lockedAmountWithdrawn,
     isClaimed |-> claimStatus.closed.b]

\* A mapper whose catch block lets the failure through.
MapperCatchRethrows(publicKey, thrown) == Rejected(thrown)

\* The mapper's catch block: the failure is logged and the entry is null
MapperCatch(publicKey, thrown) == Resolved([publicKey |-> publicKey, leafData |-> Null])

\* The mapper after client.getClaim settled with lookup
LookupMapperResult(publicKey, lookup) ==
    IF lookup.kind = "throws" THEN MapperCatch(publicKey, lookup.thrown)
    ELSE IF IsAbsent(lookup.value) \/ ~isStreamflowClaimStatus(lookup.value)
    THEN Resolved([publicKey |-> publicKey, leafData |-> Null])
    ELSE Resolved([publicKey |-> publicKey, leafData |-> LeafData(lookup.value)])

\* A result that keeps only the identifiers with data.
AssignEntryUnlessNull(result, r) ==
    IF r.leafData = Null THEN result
    ELSE [k \in (DOMAIN result) \cup {r.publicKey} |->
            IF k = r.publicKey THEN r.leafData ELSE result[k]]

\* result[publicKey] = leafData
AssignEntry(result, r) ==
    [k \in (DOMAIN result) \cup {r.publicKey} |->
        IF k = r.publicKey THEN r.leafData ELSE result[k]]

\* claimResults.forEach(...) over the settled mapper results, in input order
RECURSIVE BuildResult(_, _)
BuildResult(results, acc) ==
    IF results = <<>> THEN acc
    ELSE BuildResult(Tail(results), AssignEntry(acc, Head(results).value))

\* const { data, error } = ...; if (error) throw error; return data!
UnwrapOrThrow(result) ==
    IF ~IsAbsent(result.error) THEN Rejected(result.error) ELSE Resolved(result.data)

BatchOperationName == "getBatchUserAirdropLeafData"
BatchContext == [airdropPublicKeys |-> airdropPublicKeys, userWalletPublicKeyString |-> userWallet]

\* What getBatchUserAirdropLeafData completes with when its operation throws
BatchThrows(thrown) ==
    UnwrapOrThrow(FailureResult(
        WrapperClassify(thrown, BatchOperationName, BatchContext, nextErrorId, now)))

\* What client.getClaim may do
ClaimRecord(unlocked, locked, withdrawn, closed) ==
    [kind |-> "object", unlockedAmount |-> unlocked, lockedAmount |-> locked,
     lockedAmountWithdrawn |-> withdrawn, closed |-> closed]
LookupThrows(thrown) == [kind |-> "throws", thrown |-> thrown]
LookupReturns(value) == [kind |-> "returns", value |-> value]
NoLookup == [kind |-> "none"]

GetClaimOutcomes ==
    { LookupThrows(JsError(ACCOUNT_DOES_NOT_EXIST)),
      LookupReturns(Null),
      LookupReturns(ClaimRecord(Undefined, BN(1), BN(0), JsBool(FALSE))),
      LookupReturns(ClaimRecord(BN(1), BN(2), BN(0), JsBool(FALSE))),
      LookupReturns(ClaimRecord(BN(0), BN(3), BN(3), JsBool(TRUE))) }

RECURSIVE SeqsUpTo(_, _)
\* The sequences over S of length at most n
SeqsUpTo(S, n) ==
    IF n = 0 THEN {<<>>}
    ELSE LET shorter == SeqsUpTo(S, n - 1) IN
         shorter \cup {Append(q, x) : q \in shorter, x \in S}

UserValues == {JsText("U"), JsText(""), JsText("X"), Null, Undefined}

\* A fan-out that starts only the first lookup and leaves the others for later.
IssueFirstOnly(started) ==
    LET waiting == SelectSeq([i \in 1..Len(started) |-> i], LAMBDA i : started[i] = Pending)
    IN IF waiting = <<>> THEN <<>> ELSE <<waiting[1]>>

\* claimStatusPdas.map(async ...): the indices whose mapper called client.getClaim,
\* in the order of the calls
IssueOrder(started) ==
    SelectSeq([i \in 1..Len(started) |-> i], LAMBDA i : started[i] = Pending)

\* The promise of a function nobody called
NotCalled == [state |-> "notCalled"]

\* An empty-list test that lets the empty array through.
IsEmptyListArrayOnly(list) == list.kind # "array"

\* !Array.isArray(airdropPublicKeys) || airdropPublicKeys.length === 0
IsEmptyList(list) == list.kind # "array" \/ Len(list.items) = 0

\* A wallet check that knows null and undefined only.
IsFalsyNullOnly(value) == IsAbsent(value)

\* !userWalletPublicKey, for a string or null
IsFalsy(value) == IsAbsent(value) \/ (value.kind = "string" /\ value.text = "")

WALLET_REQUIRED == <<"U","s","e","r"," ","w","a","l","l","e","t"," ","p","u","b","l","i","c"," ","k","e","y"," ","i","s"," ","r","e","q","u","i","r","e","d"," ","f","o","r"," ","f","e","t","c","h","i","n","g"," ","a","i","r","d","r","o","p"," ","d","a","t","a">>
BatchQueryName == "batchUserAirdropData"

\* queryFn: throw new StreamFlowError(WALLET_NOT_CONNECTED, ..., { airdropCount })
WalletNotConnected(airdropCount, t) ==
    StreamFlowError("WALLET_NOT_CONNECTED", WALLET_REQUIRED, [airdropCount |-> airdropCount],
                    FALSE, t)

\* createQueryErrorHandler(queryName)(error)
QueryErrorHandler(queryName, error, id, t) ==
    createStreamFlowError(error, [query |-> queryName, errorId |-> id], t)

InitBatch ==
    /\ batchPc = "start"
    /\ airdropPublicKeys \in {JsArray(l) : l \in SeqsUpTo(Identifiers, MaxIds)} \cup {Null}
    /\ userWallet \in UserValues
    /\ derivationFails \in SUBSET DerivationFailureCandidates
    /\ claimStatusPdas = <<>>
    /\ lookups = <<>>
    /\ lookupOutcome = <<>>
    /\ claimResults = <<>>
    /\ issued = <<>>
    /\ settledOutOfOrder = FALSE
    /\ batchOutcome = Pending
    /\ queryFnOutcome \in (IF airdropPublicKeys = Null THEN {NotCalled} ELSE {NotCalled, Pending})
    /\ nextErrorId = 1
    /\ now = 1
    /\ ClassifyIdle
    /\ RetryIdle
    /\ AccessIdle
    /\ QueryIdle
    /\ PageIdle

\* getBatchUserAirdropLeafData is called and runs to await Promise.all: the
\* argument checks, the PDA of every identifier, and every mapper up to its
\* first await (client.getClaim is called for each identifier that has a PDA).
BatchStart ==
    /\ batchPc = "start"
    /\ LET list == validateRequired(airdropPublicKeys, LIST_ARG, now)
           user == validateRequired(userWallet, USER_ARG, now)
       IN
       IF list.threw \/ user.threw
       THEN /\ batchOutcome' = BatchThrows(IF list.threw THEN list.error ELSE user.error)
            /\ batchPc' = "done"
            /\ nextErrorId' = nextErrorId + 1
            /\ UNCHANGED <<claimStatusPdas, lookups, lookupOutcome, claimResults, issued>>
       ELSE IF IsEmptyList(airdropPublicKeys)
       THEN /\ batchOutcome' = UnwrapOrThrow(SuccessResult(EmptyContext))
            /\ batchPc' = "done"
            /\ UNCHANGED <<claimStatusPdas, lookups, lookupOutcome, claimResults, issued,
                           nextErrorId>>
       ELSE LET userPk == validatePublicKey(userWallet.text, USER_FIELD, now) IN
            IF userPk.threw
            THEN /\ batchOutcome' = BatchThrows(userPk.error)
                 /\ batchPc' = "done"
                 /\ nextErrorId' = nextErrorId + 1
                 /\ UNCHANGED <<claimStatusPdas, lookups, lookupOutcome, claimResults, issued>>
            ELSE LET items == airdropPublicKeys.items
                     pdas == [i \in 1..Len(items) |-> GeneratePda(items[i], userPk.value.key, now)]
                     started == [i \in 1..Len(items) |-> StartLookup(pdas[i])]
                 IN
                 /\ claimStatusPdas' = pdas
                 /\ claimResults' = started
                 /\ lookups' = [i \in 1..Len(items) |->
                                    IF \E n \in 1..Len(IssueOrder(started)) :
                                           IssueOrder(started)[n] = i
                                    THEN "pending" ELSE "none"]
                 /\ lookupOutcome' = [i \in 1..Len(items) |-> NoLookup]
                 /\ issued' = IssueOrder(started)
                 /\ batchPc' = "awaitAll"
                 /\ UNCHANGED <<batchOutcome, nextErrorId>>
    /\ now' = now + 1
    /\ UNCHANGED <<airdropPublicKeys, userWallet, derivationFails, settledOutOfOrder, classVars,
                   retryVars, accessVars,
                   queryVars,
                   pageVars>>

\* One pending client.getClaim settles and its mapper runs to its end
LookupSettles ==
    /\ batchPc = "awaitAll"
    /\ \E i \in DOMAIN lookups : \E lookup \in GetClaimOutcomes :
        /\ lookups[i] = "pending"
        /\ lookups' = [lookups EXCEPT ![i] = "settled"]
        /\ lookupOutcome' = [lookupOutcome EXCEPT ![i] = lookup]
        /\ settledOutOfOrder' =
              (settledOutOfOrder \/ \E j \in DOMAIN lookups : j > i /\ lookups[j] = "settled")
        /\ claimResults' = [claimResults EXCEPT
                                ![i] = LookupMapperResult(airdropPublicKeys.items[i], lookup)]
    /\ UNCHANGED <<batchPc, airdropPublicKeys, userWallet, derivationFails, claimStatusPdas,
                   issued, batchOutcome, queryFnOutcome, nextErrorId, now, classVars, retryVars,
                   accessVars,
                   queryVars,
                   pageVars>>

\* Promise.all settles: fulfilled once every mapper has, rejected as soon as one
\* has; the result object is built and returned through handleAsyncOperation.
BatchJoin ==
    /\ batchPc = "awaitAll"
    /\ \/ \A i \in DOMAIN claimResults : claimResults[i].state = "resolved"
       \/ \E i \in DOMAIN claimResults : claimResults[i].state = "rejected"
    /\ IF \E i \in DOMAIN claimResults : claimResults[i].state = "rejected"
       THEN /\ batchOutcome' =
                 BatchThrows(claimResults[CHOOSE i \in DOMAIN claimResults :
                                              claimResults[i].state = "rejected"].reason)
            /\ nextErrorId' = nextErrorId + 1
       ELSE /\ batchOutcome' = UnwrapOrThrow(SuccessResult(BuildResult(claimResults, EmptyContext)))
            /\ UNCHANGED nextErrorId
    /\ batchPc' = "done"
    /\ now' = now + 1
    /\ UNCHANGED <<airdropPublicKeys, userWallet, derivationFails, claimStatusPdas, lookups,
                   lookupOutcome, claimResults, issued, settledOutOfOrder, queryFnOutcome, classVars,
                   retryVars, accessVars,
                   queryVars,
                   pageVars>>

\* getBatchUserAirdropLeafData called by some other caller than the hook
CallDirect ==
    /\ queryFnOutcome = NotCalled
    /\ BatchStart
    /\ UNCHANGED queryFnOutcome

\* useBatchUserAirdropData's queryFn up to its first await: the wallet check, the
\* empty-list shortcut, and the call of getBatchUserAirdropLeafData
QueryFn ==
    /\ queryFnOutcome = Pending
    /\ batchPc = "start"
    /\ IF IsFalsy(userWallet)
       THEN /\ queryFnOutcome' = Rejected(WalletNotConnected(Len(airdropPublicKeys.items), now))
            /\ batchPc' = "skipped"
            /\ now' = now + 1
            /\ UNCHANGED <<airdropPublicKeys, userWallet, derivationFails, claimStatusPdas,
                           lookups, lookupOutcome, claimResults, issued, settledOutOfOrder,
                           batchOutcome, nextErrorId, classVars, retryVars, accessVars,
                   queryVars,
                   pageVars>>
       ELSE IF IsEmptyList(airdropPublicKeys)
       THEN /\ queryFnOutcome' = Resolved(EmptyContext)
            /\ batchPc' = "skipped"
            /\ UNCHANGED <<airdropPublicKeys, userWallet, derivationFails, claimStatusPdas,
                           lookups, lookupOutcome, claimResults, issued, settledOutOfOrder,
                           batchOutcome, nextErrorId, now, classVars, retryVars, accessVars,
                   queryVars,
                   pageVars>>
       ELSE BatchStart /\ UNCHANGED queryFnOutcome

\* The awaited getBatchUserAirdropLeafData settles: queryFn returns its value, or
\* its catch block throws the error createQueryErrorHandler makes of the failure
QueryFnSettles ==
    /\ queryFnOutcome = Pending
    /\ batchPc = "done"
    /\ IF batchOutcome.state = "rejected"
       THEN /\ queryFnOutcome' = Rejected(QueryErrorHandler(BatchQueryName, batchOutcome.reason,
                                                            nextErrorId, now))
            /\ nextErrorId' = nextErrorId + 1
            /\ now' = now + 1
       ELSE /\ queryFnOutcome' = Resolved(batchOutcome.value)
            /\ UNCHANGED <<nextErrorId, now>>
    /\ UNCHANGED <<batchPc, airdropPublicKeys, userWallet, derivationFails, claimStatusPdas,
                   lookups, lookupOutcome, claimResults, issued, settledOutOfOrder, batchOutcome,
                   classVars, retryVars, accessVars,
                   queryVars,
                   pageVars>>

NextBatch == CallDirect \/ QueryFn \/ LookupSettles \/ BatchJoin \/ QueryFnSettles

SpecBatch == InitBatch /\ [][NextBatch]_vars

----------------------------------------------------------------------------
(* Claims about getBatchUserAirdropLeafData *)

BatchDone == batchPc = "done"
BatchSucceeded == BatchDone /\ batchOutcome.state = "resolved"
InputIdentifiers ==
    IF airdropPublicKeys.kind = "array"
    THEN {airdropPublicKeys.items[i] : i \in 1..Len(airdropPublicKeys.items)}
    ELSE {}

BatchFansOut ==
    /\ userWallet = JsText("U")
    /\ airdropPublicKeys.kind = "array"
    /\ airdropPublicKeys.items # <<>>

\* The identifier at index i failed: its key derivation or its getClaim threw
IdentifierFailed(i) ==
    \/ airdropPublicKeys.items[i] \notin ValidPublicKeys
    \/ airdropPublicKeys.items[i] \in derivationFails
    \/ lookupOutcome[i].kind = "throws"

\* The allocation the lookup at index i resolved to, null when it found no claim
ResolvedAllocation(i) ==
    LET c == lookupOutcome[i].value IN
    IF c.kind = "object" /\ c.unlockedAmount.kind = "BN" /\ c.lockedAmount.kind = "BN"
       /\ c.closed.kind = "boolean"
    THEN [kind |-> "leafData",
          totalAllocation |-> BN(c.unlockedAmount.n + c.lockedAmount.n),
          claimedAmount |-> c.lockedAmountWithdrawn,
          isClaimed |-> c.closed.b]
    ELSE Null

\* Index i holds the last occurrence of its identifier in the list
LastOccurrence(i) ==
    \A j \in (i + 1)..Len(airdropPublicKeys.items) :
        airdropPublicKeys.items[j] # airdropPublicKeys.items[i]

\* C4: in a batch fetch with a valid user identity, a failure (key derivation or
\* getClaim throwing) for one identifier never fails the batch and never changes
\* another identifier's entry: the failing identifier maps to null, every other
\* identifier to the allocation its own lookup resolved (totalAllocation =
\* unlocked + locked, claimedAmount, isClaimed). An identifier listed twice has
\* the entry of its last occurrence.
C4_FailureIsolated ==
    BatchFansOut =>
        /\ batchOutcome.state # "rejected"
        /\ BatchDone =>
            /\ batchOutcome.state = "resolved"
            /\ \A i \in 1..Len(airdropPublicKeys.items) :
                LastOccurrence(i) =>
                    batchOutcome.value[airdropPublicKeys.items[i]] =
                        (IF IdentifierFailed(i) THEN Null ELSE ResolvedAllocation(i))

\* C4 witness: the batch A, B, C where the lookup for B threw and those for A
\* and C returned different claims.
C4_Witness ==
    /\ BatchDone
    /\ userWallet = JsText("U")
    /\ derivationFails = {}
    /\ airdropPublicKeys = JsArray(<<"A", "B", "C">>)
    /\ lookupOutcome[1] = LookupReturns(ClaimRecord(BN(1), BN(2), BN(0), JsBool(FALSE)))
    /\ lookupOutcome[2].kind = "throws"
    /\ lookupOutcome[3] = LookupReturns(ClaimRecord(BN(0), BN(3), BN(3), JsBool(TRUE)))
    /\ batchOutcome.state = "resolved"
    /\ batchOutcome.value["B"] = Null
    /\ batchOutcome.value["A"].totalAllocation = BN(3)
    /\ batchOutcome.value["A"].isClaimed = FALSE
    /\ batchOutcome.value["C"].claimedAmount = BN(3)
    /\ batchOutcome.value["C"].isClaimed = TRUE

----------------------------------------------------------------------------
(* Claims about the preconditions of a batch fetch *)

\* The batch fetch was made through the hook's queryFn
ThroughQueryFn == queryFnOutcome # NotCalled

\* The promise the caller of the batch fetch holds
FetchOutcome == IF ThroughQueryFn THEN queryFnOutcome ELSE batchOutcome
FetchFinished == FetchOutcome.state \in {"resolved", "rejected"}

\* The user identity is null, undefined or the empty string
UserAbsentOrEmpty == userWallet \in {Null, Undefined, JsText("")}

\* No PDA was derived and no getClaim lookup was issued
NothingAttempted ==
    /\ claimStatusPdas = <<>>
    /\ issued = <<>>
    /\ lookups = <<>>

\* C14 as stated: for any identifier list, a batch fetch called with a null or
\* empty user identity fails with code WALLET_NOT_CONNECTED and retryable = false,
\* and no key derivation or getClaim lookup is attempted before the failure.
C14_WalletNotConnected ==
    UserAbsentOrEmpty =>
        /\ NothingAttempted
        /\ FetchFinished =>
            /\ FetchOutcome.state = "rejected"
            /\ FetchOutcome.reason.code = "WALLET_NOT_CONNECTED"
            /\ FetchOutcome.reason.retryable = FALSE

\* C14 amended: with a null, undefined or empty user identity no key derivation
\* and no getClaim lookup is ever attempted. The hook's queryFn then fails with
\* WALLET_NOT_CONNECTED, retryable = false, for any identifier list, without
\* calling getBatchUserAirdropLeafData. getBatchUserAirdropLeafData called
\* directly fails with MISSING_REQUIRED_FIELD when the identity or the list is
\* null or undefined and with INVALID_PUBLIC_KEY when the identity is empty and
\* the list is not, both with retryable = false, and returns the empty mapping
\* when the identity and the list are both empty.
C14_AbsentUserFailsEarly ==
    UserAbsentOrEmpty =>
        /\ NothingAttempted
        /\ (FetchFinished /\ ThroughQueryFn) =>
            /\ queryFnOutcome.state = "rejected"
            /\ queryFnOutcome.reason.code = "WALLET_NOT_CONNECTED"
            /\ queryFnOutcome.reason.retryable = FALSE
            /\ batchPc = "skipped"
            /\ batchOutcome = Pending
        /\ (FetchFinished /\ ~ThroughQueryFn) =>
            IF IsAbsent(userWallet) \/ IsAbsent(airdropPublicKeys)
            THEN /\ batchOutcome.state = "rejected"
                 /\ batchOutcome.reason.code = "MISSING_REQUIRED_FIELD"
                 /\ batchOutcome.reason.retryable = FALSE
            ELSE IF airdropPublicKeys.items = <<>>
            THEN batchOutcome = Resolved(EmptyContext)
            ELSE /\ batchOutcome.state = "rejected"
                 /\ batchOutcome.reason.code = "INVALID_PUBLIC_KEY"
                 /\ batchOutcome.reason.retryable = FALSE

\* C14 witness: the queryFn was run for three identifiers with the empty string
\* as user identity and failed with WALLET_NOT_CONNECTED.
C14_Witness ==
    /\ ThroughQueryFn
    /\ userWallet = JsText("")
    /\ airdropPublicKeys = JsArray(<<"A", "B", "C">>)
    /\ queryFnOutcome.state = "rejected"
    /\ queryFnOutcome.reason.code = "WALLET_NOT_CONNECTED"
    /\ queryFnOutcome.reason.context.airdropCount = 3

\* The user identity is a string that is not empty (a valid key or not)
UserPresent == userWallet.kind = "string" /\ userWallet.text # ""

\* C15: a batch fetch with an empty identifier list and a present user identity
\* succeeds with the empty mapping, through the hook's queryFn and called
\* directly: it fails at no point and no key is derived and no getClaim lookup
\* issued.
C15_EmptyListEmptyMapping ==
    (UserPresent /\ airdropPublicKeys = JsArray(<<>>)) =>
        /\ NothingAttempted
        /\ FetchOutcome.state # "rejected"
        /\ batchOutcome.state # "rejected"
        /\ batchPc # "start" =>
            /\ FetchOutcome = Resolved(EmptyContext)
            /\ DOMAIN FetchOutcome.value = {}

\* C15 witness: getBatchUserAirdropLeafData was called with no identifiers for
\* a connected user and returned the empty mapping.
C15_Witness ==
    /\ ~ThroughQueryFn
    /\ userWallet = JsText("U")
    /\ airdropPublicKeys = JsArray(<<>>)
    /\ batchPc = "done"
    /\ batchOutcome = Resolved(EmptyContext)

\* C15 witness through the hook: queryFn returned the empty mapping itself.
C15_WitnessQueryFn ==
    /\ ThroughQueryFn
    /\ userWallet = JsText("U")
    /\ airdropPublicKeys = JsArray(<<>>)
    /\ batchPc = "skipped"
    /\ queryFnOutcome = Resolved(EmptyContext)

----------------------------------------------------------------------------
(* Claims about the fan-out and the join of a batch fetch *)

\* A PDA can be derived for the identifier at index i
HasPda(i) ==
    /\ airdropPublicKeys.items[i] \in ValidPublicKeys
    /\ airdropPublicKeys.items[i] \notin derivationFails

\* The indices with a PDA, in input order
IndicesWithPda ==
    SelectSeq([i \in 1..Len(airdropPublicKeys.items) |-> i], LAMBDA i : HasPda(i))

\* The mapping the outcomes of the lookups determine, whatever their order: each
\* identifier has the entry of its last occurrence in the list
MappingOfOutcomes ==
    [k \in InputIdentifiers |->
        LET i == CHOOSE i \in 1..Len(airdropPublicKeys.items) :
                    airdropPublicKeys.items[i] = k /\ LastOccurrence(i)
        IN IF IdentifierFailed(i) THEN Null ELSE ResolvedAllocation(i)]

\* C16: getBatchUserAirdropLeafData calls getClaim for every identifier that has
\* a PDA, in input order, before it awaits any of them (no lookup has settled
\* when the last one is issued); its promise stays pending while a lookup is
\* pending; and the mapping it returns is the one the lookups' outcomes
\* determine, the same for every order in which they complete.
C16_ParallelWaveAndJoin ==
    BatchFansOut =>
        /\ batchPc \in {"awaitAll", "done"} =>
            /\ issued = IndicesWithPda
            /\ \A i \in DOMAIN lookups : HasPda(i) <=> lookups[i] \in {"pending", "settled"}
        /\ (\E i \in DOMAIN lookups : lookups[i] = "pending") =>
            /\ batchPc = "awaitAll"
            /\ batchOutcome = Pending
            /\ queryFnOutcome \in {NotCalled, Pending}
        /\ BatchDone =>
            /\ \A i \in DOMAIN lookups : HasPda(i) => lookups[i] = "settled"
            /\ batchOutcome = Resolved(MappingOfOutcomes)
        /\ (ThroughQueryFn /\ FetchFinished) => queryFnOutcome = Resolved(MappingOfOutcomes)

\* C16 witness: in the batch A, B, C a lookup completed after one issued later,
\* and the function returned the mapping of the three outcomes.
C16_Witness ==
    /\ BatchDone
    /\ userWallet = JsText("U")
    /\ derivationFails = {}
    /\ airdropPublicKeys = JsArray(<<"A", "B", "C">>)
    /\ issued = <<1, 2, 3>>
    /\ settledOutOfOrder
    /\ lookupOutcome[1] = LookupReturns(ClaimRecord(BN(0), BN(3), BN(3), JsBool(TRUE)))
    /\ lookupOutcome[2] = LookupReturns(Null)
    /\ lookupOutcome[3] = LookupReturns(ClaimRecord(BN(1), BN(2), BN(0), JsBool(FALSE)))
    /\ batchOutcome.state = "resolved"
    /\ batchOutcome.value["A"].isClaimed = TRUE
    /\ batchOutcome.value["B"] = Null
    /\ batchOutcome.value["C"].totalAllocation = BN(3)

\* C16 witness of the other order: the same lookups with the same outcomes
\* completed in the order they were issued, with the same mapping.
C16_WitnessInOrder ==
    /\ BatchDone
    /\ userWallet = JsText("U")
    /\ derivationFails = {}
    /\ airdropPublicKeys = JsArray(<<"A", "B", "C">>)
    /\ issued = <<1, 2, 3>>
    /\ ~settledOutOfOrder
    /\ lookupOutcome[1] = LookupReturns(ClaimRecord(BN(0), BN(3), BN(3), JsBool(TRUE)))
    /\ lookupOutcome[2] = LookupReturns(Null)
    /\ lookupOutcome[3] = LookupReturns(ClaimRecord(BN(1), BN(2), BN(0), JsBool(FALSE)))
    /\ batchOutcome.state = "resolved"
    /\ batchOutcome.value["A"].isClaimed = TRUE
    /\ batchOutcome.value["B"] = Null
    /\ batchOutcome.value["C"].totalAllocation = BN(3)

\* C16 witness of the wave: three lookups are in flight and none has settled.
C16_WitnessWave ==
    /\ batchPc = "awaitAll"
    /\ issued = <<1, 2, 3>>
    /\ \A i \in 1..3 : lookups[i] = "pending"

----------------------------------------------------------------------------
(* lib/streamflow.ts: getAirdrops *)

MaxRecords == 3

JsNumber(n) == [kind |-> "number", n |-> n]
PublicKeyObject(k) == [kind |-> "PublicKey", key |-> k]
\* A BN of more than 53 bits; its value is not represented
WideBN == [kind |-> "BN", n |-> 0, wide |-> TRUE]

\* A raw record of the SDK and its account
Account(version) == [kind |-> "object", version |-> version]
Distributor(publicKey, account) ==
    [kind |-> "object", publicKey |-> publicKey, account |-> account]

\* !!value
Truthy(value) ==
    /\ ~IsAbsent(value)
    /\ ~(value.kind = "string" /\ value.text = "")
    /\ ~(value.kind = "number" /\ value.n = 0)

\* typeof value === 'object', for a value that is not null
TypeofObject(value) == value.kind \in {"object", "array", "BN", "PublicKey"}

\* A type guard that does not look at account.version.
isValidDistributorWithoutVersion(value) ==
    /\ Truthy(value)
    /\ TypeofObject(value)
    /\ Truthy(value.publicKey)
    /\ Truthy(value.account)
    /\ TypeofObject(value.account)

\* isValidDistributor
isValidDistributor(value) ==
    /\ Truthy(value)
    /\ TypeofObject(value)
    /\ Truthy(value.publicKey)
    /\ Truthy(value.account)
    /\ TypeofObject(value.account)
    /\ value.account.version # Undefined
    /\ value.account.version # Null

\* Number(text) for the strings that are numbers; the others give NaN
NumberOfText == [t \in {"", "0", "1", "2", "3"} |->
                    IF t = "1" THEN 1 ELSE IF t = "2" THEN 2 ELSE IF t = "3" THEN 3 ELSE 0]

\* toBN: null when the value cannot be converted
toBN(value) ==
    IF IsAbsent(value) THEN Null
    ELSE IF value.kind = "BN" THEN value
    ELSE IF value.kind = "number" THEN BN(value.n)
    ELSE IF value.kind = "string" /\ value.text \in DOMAIN NumberOfText
    THEN BN(NumberOfText[value.text])
    ELSE Null

\* toBN(account.version, 'version') ?? new BN(0)
VersionBN(account) ==
    IF toBN(account.version) = Null THEN BN(0) ELSE toBN(account.version)

\* The statements of transformDistributorToAirdropInfo that can throw:
\* BN.toNumber beyond 53 bits and publicKey.toBase58 on a value that has none
TransformThrows(distributor) ==
    \/ "wide" \in DOMAIN VersionBN(distributor.account)
    \/ distributor.publicKey.kind # "PublicKey"

\* transformDistributorToAirdropInfo: the summary, or null when the try block threw
transformDistributorToAirdropInfo(distributor) ==
    IF TransformThrows(distributor) THEN Null
    ELSE [kind |-> "AirdropInfo",
          publicKey |-> distributor.publicKey.key,
          version |-> VersionBN(distributor.account).n,
          name |-> <<"Airdrop ", distributor.publicKey.key, "...">>,
          isVested |-> FALSE,
          maxNumNodes |-> BN(0),
          numNodesClaimed |-> BN(0),
          totalAmount |-> BN(0),
          claimedAmount |-> BN(0),
          decimals |-> 0,
          mint |-> "Unknown"]

LogEntry(level, event, index) == [level |-> level, event |-> event, index |-> index]

\* What errorLogger.log records at warn or error level for the record at index
RecordLogs(record, index) ==
    IF ~(Truthy(record) /\ TypeofObject(record))
    THEN <<LogEntry("warn", "Invalid distributor: not an object", index),
           LogEntry("warn", "Skipping malformed distributor", index)>>
    ELSE IF ~isValidDistributor(record)
    THEN <<LogEntry("warn", "Invalid distributor: missing required fields", index),
           LogEntry("warn", "Skipping malformed distributor", index)>>
    ELSE (IF toBN(record.account.version) = Null
          THEN <<LogEntry("warn", "Failed to convert version to BN", index)>> ELSE <<>>)
         \o (IF TransformThrows(record)
             THEN <<LogEntry("error", "Failed to transform distributor", index)>> ELSE <<>>)

RECURSIVE AllRecordLogs(_, _)
\* The entries for records[from..], in order
AllRecordLogs(records, from) ==
    IF from > Len(records) THEN <<>>
    ELSE RecordLogs(records[from], from - 1) \o AllRecordLogs(records, from + 1)

\* searchResults.map(...).filter(item => item !== null)
MapAndFilter(records) ==
    SelectSeq([i \in 1..Len(records) |->
                   IF isValidDistributor(records[i])
                   THEN transformDistributorToAirdropInfo(records[i]) ELSE Null],
              LAMBDA item : item # Null)

\* A comparator the wrong way round: a.version - b.version.
InsertByVersionAscending(sorted, info) ==
    LET before == Cardinality({i \in 1..Len(sorted) : sorted[i].version <= info.version})
    IN SubSeq(sorted, 1, before) \o <<info>> \o SubSeq(sorted, before + 1, Len(sorted))

\* One step of the stable sort with (a, b) => b.version - a.version
InsertByVersion(sorted, info) ==
    LET before == Cardinality({i \in 1..Len(sorted) : sorted[i].version >= info.version})
    IN SubSeq(sorted, 1, before) \o <<info>> \o SubSeq(sorted, before + 1, Len(sorted))

RECURSIVE SortByVersion(_)
\* airdropInfos.sort((a, b) => b.version - a.version)
SortByVersion(infos) ==
    IF infos = <<>> THEN <<>>
    ELSE InsertByVersion(SortByVersion(SubSeq(infos, 1, Len(infos) - 1)), infos[Len(infos)])

\* A limit that keeps the tail: slice(-limit).
ApplyLimitFromEnd(infos, limit) ==
    IF Truthy(limit) /\ limit.n > 0 /\ limit.n < Len(infos)
    THEN SubSeq(infos, Len(infos) - limit.n + 1, Len(infos))
    ELSE infos

\* limit && limit > 0 && limit < airdropInfos.length ? airdropInfos.slice(0, limit) : airdropInfos
ApplyLimit(infos, limit) ==
    IF Truthy(limit) /\ limit.n > 0 /\ limit.n < Len(infos)
    THEN SubSeq(infos, 1, limit.n)
    ELSE infos

\* The operation of getAirdrops after client.searchDistributors resolved
SearchOperationResult(searchResults, limit) ==
    IF ~Truthy(searchResults) THEN <<>>
    ELSE ApplyLimit(SortByVersion(MapAndFilter(searchResults.items)), limit)

\* Raw records client.searchDistributors may return
WellFormedRecords ==
    { Distributor(PublicKeyObject("A"), Account(BN(1))),
      Distributor(PublicKeyObject("B"), Account(BN(2))),
      Distributor(PublicKeyObject("C"), Account(BN(2))),
      Distributor(PublicKeyObject("A"), Account(JsText("abc"))) }
MalformedRecords ==
    { Null,
      Distributor(Undefined, Account(BN(1))),
      Distributor(PublicKeyObject("A"), Undefined),
      Distributor(PublicKeyObject("B"), Account(Undefined)) }
\* Records that have every required field and cannot be transformed
UntransformableRecords ==
    { Distributor(PublicKeyObject("B"), Account(WideBN)),
      Distributor(JsText("C"), Account(BN(3))) }
RawRecords == WellFormedRecords \cup MalformedRecords \cup UntransformableRecords

\* Twelve records, two of them malformed
TwelveRecords ==
    << Distributor(PublicKeyObject("A"), Account(BN(1))),
       Distributor(PublicKeyObject("B"), Account(BN(2))),
       Distributor(PublicKeyObject("B"), Account(Undefined)),
       Distributor(PublicKeyObject("C"), Account(BN(2))),
       Distributor(PublicKeyObject("A"), Account(BN(3))),
       Distributor(PublicKeyObject("B"), Account(BN(1))),
       Distributor(PublicKeyObject("C"), Account(BN(3))),
       Distributor(PublicKeyObject("A"), Account(JsText("abc"))),
       Distributor(PublicKeyObject("A"), Undefined),
       Distributor(PublicKeyObject("A"), Account(BN(2))),
       Distributor(PublicKeyObject("B"), Account(BN(3))),
       Distributor(PublicKeyObject("C"), Account(BN(1))) >>

\* What client.searchDistributors may resolve with
SearchReplies ==
    {JsArray(l) : l \in SeqsUpTo(RawRecords, MaxRecords)}
    \cup {JsArray(TwelveRecords), Null, Undefined}

\* The replies tried for a call: all of them for a direct call, three of them
\* for a call the query hook makes
SearchRepliesOf(call) ==
    IF "caller" \in DOMAIN call
    THEN {JsArray(<<>>), JsArray(TwelveRecords), Null}
    ELSE SearchReplies

\* What client.searchDistributors may throw: a retryable and a non-retryable failure
SearchFailures == {JsError(NETWORK), JsError(INVALID_ACCOUNT_DATA_TEXT)}

Limits == {Undefined, JsNumber(0), JsNumber(-1), JsNumber(1), JsNumber(2), JsNumber(25)}

GetAirdropsCalls == {[fn |-> "getAirdrops", limit |-> l] : l \in Limits}

\* handleAsyncOperationWithRetry(operation, 'getAirdrops', {...}, { maxRetries: 2, baseDelay: 1000 })
GetAirdropsConfig == MergeConfig([maxRetries |-> 2, baseDelay |-> 1000])
GetAirdropsContext(call) ==
    [mintFilter |-> Undefined, admin |-> Undefined, limit |-> call.limit]

\* getAirdrops is called: withRetry calls the operation, which calls
\* client.searchDistributors and awaits it
GetAirdropsBegin ==
    /\ accessCall.fn = "getAirdrops"
    /\ pc = "start"
    /\ LoopContinues(attempt, config.maxRetries)
    /\ sdkCalls' = sdkCalls + 1
    /\ invocations' = invocations + 1
    /\ pc' = "awaitOperation"
    /\ UNCHANGED <<entry, opContext, config, attempt, delays, lastError, lastThrown,
                   lastResolved, failures, retryableFailures, outcome, nextErrorId, now,
                   accessCall, sdkReply, logs, accessOutcome, errors, userLeafData, loading,
                   claimed, classVars, batchVars,
                   queryVars,
                   pageVars>>

\* client.searchDistributors resolves: map, filter, sort and limit; the wrapper
\* returns { data, error: null } and getAirdrops returns data
SearchResolves ==
    /\ accessCall.fn = "getAirdrops"
    /\ pc = "awaitOperation"
    /\ \E reply \in SearchRepliesOf(accessCall) :
        LET data == SearchOperationResult(reply, accessCall.limit) IN
        /\ sdkReply' = reply
        /\ logs' = logs \o (IF Truthy(reply) THEN AllRecordLogs(reply.items, 1) ELSE <<>>)
        /\ lastResolved' = data
        /\ outcome' = Resolved(SuccessResult(data))
        /\ accessOutcome' = UnwrapOrThrow(SuccessResult(data))
    /\ pc' = "done"
    /\ UNCHANGED <<entry, opContext, config, attempt, invocations, delays, lastError,
                   lastThrown, failures, retryableFailures, nextErrorId, now, accessCall,
                   sdkCalls, errors, userLeafData, loading, claimed, classVars, batchVars,
                   queryVars,
                   pageVars>>

\* client.searchDistributors rejects: withRetry's catch block, and when it gives
\* up the wrapper's catch block and getAirdrops' throw
SearchRejects ==
    /\ accessCall.fn = "getAirdrops"
    /\ pc = "awaitOperation"
    /\ \E thrown \in SearchFailures :
        LET err == NextLastError(lastError, thrown, attempt, config.maxRetries, now) IN
        /\ lastThrown' = thrown
        /\ lastError' = err
        /\ retryableFailures' = retryableFailures + (IF err.retryable THEN 1 ELSE 0)
        /\ IF ShouldThrow(err, attempt, config.maxRetries)
           THEN LET result == FailureResult(RetryWrapperClassify(err, "getAirdrops", opContext,
                                                                 nextErrorId, now))
                IN /\ outcome' = Resolved(result)
                   /\ accessOutcome' = UnwrapOrThrow(result)
                   /\ pc' = "done"
                   /\ UNCHANGED delays
           ELSE /\ delays' = Append(delays, BackoffDelay(config, attempt))
                /\ pc' = "sleeping"
                /\ UNCHANGED <<outcome, accessOutcome>>
    /\ failures' = failures + 1
    /\ now' = now + 1
    /\ UNCHANGED <<entry, opContext, config, attempt, invocations, lastResolved, nextErrorId,
                   accessCall, sdkCalls, sdkReply, logs, errors, userLeafData, loading,
                   claimed, classVars, batchVars,
                   queryVars,
                   pageVars>>

\* The back-off timer of getAirdrops' retry fires and the operation is called again
SearchRetryTimer ==
    /\ accessCall.fn = "getAirdrops"
    /\ pc = "sleeping"
    /\ LoopContinues(attempt + 1, config.maxRetries)
    /\ attempt' = attempt + 1
    /\ invocations' = invocations + 1
    /\ sdkCalls' = sdkCalls + 1
    /\ pc' = "awaitOperation"
    /\ now' = now + 1
    /\ UNCHANGED <<entry, opContext, config, delays, lastError, lastThrown, lastResolved,
                   failures, retryableFailures, outcome, nextErrorId, accessCall, sdkReply,
                   logs, accessOutcome, errors, userLeafData, loading, claimed, classVars,
                   batchVars,
                   queryVars,
                   pageVars>>

----------------------------------------------------------------------------
(* lib/streamflow.ts: getAirdropDetails and getUserAirdropLeafData;
   app/layout.tsx: AirdropPageContent.fetchUserLeaf *)

LEAF_NOT_FOUND == <<"l","e","a","f"," ","n","o","t"," ","f","o","u","n","d">>
RECIPIENT_NOT_FOUND == <<"r","e","c","i","p","i","e","n","t"," ","n","o","t"," ","f","o","u","n","d">>
PUBLIC_KEY_STRING_ARG == <<"p","u","b","l","i","c","K","e","y","S","t","r","i","n","g">>
DISTRIBUTOR_ARG == <<"d","i","s","t","r","i","b","u","t","o","r","P","u","b","l","i","c","K","e","y","S","t","r","i","n","g">>
AIRDROP_FIELD == <<"a","i","r","d","r","o","p"," ","p","u","b","l","i","c","K","e","y">>

\* What client.getDistributors and client.getClaim may throw
LookupFailures ==
    {JsError(m) : m \in {Capitalized(ACCOUNT_DOES_NOT_EXIST), Capitalized(ACCOUNT_NOT_FOUND_TEXT),
                         NETWORK \o <<" ">> \o ACCOUNT_DOES_NOT_EXIST,
                         FETCH \o <<" ">> \o ACCOUNT_NOT_FOUND_TEXT,
                         Capitalized(LEAF_NOT_FOUND), RECIPIENT_NOT_FOUND,
                         INVALID_ACCOUNT_DATA_TEXT, TIMEOUT, BOOM}}
    \cup {JsString(BOOM)}

\* What client.getDistributors may resolve with
DistributorReplies ==
    {Null, Undefined, JsArray(<<>>), JsArray(<<Null>>), JsArray(<<Account(BN(1))>>)}

\* What client.getClaim may resolve with
ClaimReplies == {o.value : o \in {g \in GetClaimOutcomes : g.kind = "returns"}}

GetAirdropDetailsCalls ==
    {[fn |-> "getAirdropDetails", publicKeyString |-> k] : k \in {JsText("A"), JsText("X"), Null}}

GetUserLeafCalls ==
    {[fn |-> "getUserAirdropLeafData", distributor |-> d, user |-> u, caller |-> "direct"] :
        d \in {JsText("A"), JsText("X")}, u \in {JsText("U"), Null}}
    \cup {[fn |-> "getUserAirdropLeafData", distributor |-> JsText("A"), user |-> JsText("U"),
           caller |-> "fetchUserLeaf"]}

AccessCalls == GetAirdropsCalls \cup GetAirdropDetailsCalls \cup GetUserLeafCalls

\* The context argument the exported function gives its wrapper
AccessContext(call) ==
    IF call.fn = "getAirdrops" THEN GetAirdropsContext(call)
    ELSE IF call.fn = "getAirdropDetails" THEN [publicKeyString |-> call.publicKeyString]
    ELSE [distributorPublicKeyString |-> call.distributor,
          userWalletPublicKeyString |-> call.user]

CalledByPage == accessCall.fn = "getUserAirdropLeafData" /\ accessCall.caller = "fetchUserLeaf"

\* A not-found test that reads the message only.
DetailsNotFoundByMessage(error) ==
    includes(toLowerCase(error.message), ACCOUNT_DOES_NOT_EXIST)

\* error.code === ACCOUNT_NOT_FOUND || error.message.toLowerCase().includes('account does not exist')
DetailsNotFound(error) ==
    \/ error.code = "ACCOUNT_NOT_FOUND"
    \/ includes(toLowerCase(error.message), ACCOUNT_DOES_NOT_EXIST)

\* getAirdropDetails after its wrapper returned
DetailsReturn(result) ==
    IF ~IsAbsent(result.error)
    THEN (IF DetailsNotFound(result.error) THEN Resolved(Null) ELSE Rejected(result.error))
    ELSE Resolved(result.data)

\* The message test of getUserAirdropLeafData
LeafNotFound(error) ==
    LET errorMessage == toLowerCase(error.message) IN
    \/ includes(errorMessage, ACCOUNT_DOES_NOT_EXIST)
    \/ includes(errorMessage, LEAF_NOT_FOUND)
    \/ includes(errorMessage, RECIPIENT_NOT_FOUND)
    \/ includes(errorMessage, INVALID_ACCOUNT_DATA_TEXT)

\* getUserAirdropLeafData after its wrapper returned
LeafReturn(result) ==
    IF ~IsAbsent(result.error)
    THEN (IF LeafNotFound(result.error) THEN Resolved(Null) ELSE Rejected(result.error))
    ELSE Resolved(result.data)

\* The exported function after its wrapper returned
AccessReturn(call, result) ==
    IF call.fn = "getAirdropDetails" THEN DetailsReturn(result)
    ELSE IF call.fn = "getUserAirdropLeafData" THEN LeafReturn(result)
    ELSE UnwrapOrThrow(result)

\* distributorAccounts?.[0]
FirstAccount(reply) ==
    IF IsAbsent(reply) THEN Undefined
    ELSE IF Len(reply.items) = 0 THEN Undefined
    ELSE reply.items[1]

\* The operation of getAirdropDetails after client.getDistributors resolved
DetailsOperationResult(call, reply) ==
    IF ~Truthy(FirstAccount(reply)) THEN Null
    ELSE [kind |-> "object", publicKey |-> PublicKeyObject(call.publicKeyString.text),
          account |-> FirstAccount(reply)]

\* The operation of getUserAirdropLeafData after client.getClaim resolved
LeafOperationResult(claimStatus) ==
    IF (~Truthy(claimStatus)) \/ ~isStreamflowClaimStatus(claimStatus) THEN Null
    ELSE LeafData(claimStatus)

\* The argument checks of the two operations, in order: the first that throws
ArgumentCheck(call, t) ==
    IF call.fn = "getAirdropDetails"
    THEN (IF validateRequired(call.publicKeyString, PUBLIC_KEY_STRING_ARG, t).threw
          THEN validateRequired(call.publicKeyString, PUBLIC_KEY_STRING_ARG, t)
          ELSE validatePublicKey(call.publicKeyString.text, AIRDROP_FIELD, t))
    ELSE IF validateRequired(call.distributor, DISTRIBUTOR_ARG, t).threw
    THEN validateRequired(call.distributor, DISTRIBUTOR_ARG, t)
    ELSE IF validateRequired(call.user, USER_ARG, t).threw
    THEN validateRequired(call.user, USER_ARG, t)
    ELSE IF validatePublicKey(call.distributor.text, DISTRIBUTOR_FIELD, t).threw
    THEN validatePublicKey(call.distributor.text, DISTRIBUTOR_FIELD, t)
    ELSE validatePublicKey(call.user.text, USER_FIELD, t)

\* The exported function is called and its operation runs to its first await:
\* the argument checks, then the SDK call; a failed check ends the call at once
BeginLookup(fnName) ==
    /\ accessCall.fn = fnName
    /\ pc = "start"
    /\ LET check == ArgumentCheck(accessCall, now) IN
       IF check.threw
       THEN LET result == FailureResult(WrapperClassify(check.error, fnName, opContext,
                                                        nextErrorId, now))
            IN /\ lastThrown' = check.error
               /\ failures' = failures + 1
               /\ outcome' = Resolved(result)
               /\ accessOutcome' = AccessReturn(accessCall, result)
               /\ pc' = "done"
               /\ nextErrorId' = nextErrorId + 1
               /\ UNCHANGED sdkCalls
       ELSE /\ sdkCalls' = sdkCalls + 1
            /\ pc' = "awaitOperation"
            /\ UNCHANGED <<lastThrown, failures, outcome, accessOutcome, nextErrorId>>
    /\ invocations' = invocations + 1
    /\ IF CalledByPage
       THEN /\ loading' = [loading EXCEPT !.userLeaf = TRUE]
            /\ userLeafData' = Undefined
            /\ errors' = [errors EXCEPT !.userLeaf = Null]
       ELSE UNCHANGED <<loading, userLeafData, errors>>
    /\ now' = now + 1
    /\ UNCHANGED <<entry, opContext, config, attempt, delays, lastError, lastResolved,
                   retryableFailures, accessCall, sdkReply, logs, claimed, classVars,
                   batchVars,
                   queryVars,
                   pageVars>>

\* The awaited SDK call resolves with reply and the operation returns data
ResolveLookup(fnName, reply, data) ==
    /\ accessCall.fn = fnName
    /\ pc = "awaitOperation"
    /\ sdkReply' = reply
    /\ lastResolved' = data
    /\ outcome' = Resolved(SuccessResult(data))
    /\ accessOutcome' = AccessReturn(accessCall, SuccessResult(data))
    /\ pc' = "done"
    /\ UNCHANGED <<entry, opContext, config, attempt, invocations, delays, lastError,
                   lastThrown, failures, retryableFailures, nextErrorId, now, accessCall,
                   sdkCalls, logs, errors, userLeafData, loading, claimed, classVars,
                   batchVars,
                   queryVars,
                   pageVars>>

\* The awaited SDK call rejects: handleAsyncOperation's catch block, then the
\* exported function's own treatment of the error
RejectLookup(fnName, thrown) ==
    /\ accessCall.fn = fnName
    /\ pc = "awaitOperation"
    /\ LET err == WrapperClassify(thrown, fnName, opContext, nextErrorId, now)
           result == FailureResult(err)
       IN /\ lastThrown' = thrown
          /\ retryableFailures' = retryableFailures + (IF err.retryable THEN 1 ELSE 0)
          /\ outcome' = Resolved(result)
          /\ accessOutcome' = AccessReturn(accessCall, result)
    /\ failures' = failures + 1
    /\ nextErrorId' = nextErrorId + 1
    /\ now' = now + 1
    /\ pc' = "done"
    /\ UNCHANGED <<entry, opContext, config, attempt, invocations, delays, lastError,
                   lastResolved, accessCall, sdkCalls, sdkReply, logs, errors, userLeafData,
                   loading, claimed, classVars, batchVars,
                   queryVars,
                   pageVars>>

GetAirdropDetailsBegin == BeginLookup("getAirdropDetails")

GetDistributorsResolves ==
    \E reply \in DistributorReplies :
        ResolveLookup("getAirdropDetails", reply, DetailsOperationResult(accessCall, reply))

GetDistributorsRejects ==
    \E thrown \in LookupFailures : RejectLookup("getAirdropDetails", thrown)

GetUserLeafBegin == BeginLookup("getUserAirdropLeafData")

GetClaimResolves ==
    \E reply \in ClaimReplies :
        ResolveLookup("getUserAirdropLeafData", reply, LeafOperationResult(reply))

GetClaimRejects ==
    \E thrown \in LookupFailures : RejectLookup("getUserAirdropLeafData", thrown)

\* fetchUserLeaf after its handleAsyncOperation(() => getUserAirdropLeafData(...))
\* returned: the page's state is set from { data, error }
FetchUserLeafContinues ==
    /\ CalledByPage
    /\ pc = "done"
    /\ IF accessOutcome.state = "rejected"
       THEN LET error == WrapperClassify(accessOutcome.reason, "getUserAirdropLeafData",
                                         [distributorPublicKey |-> accessCall.distributor,
                                          userWalletPublicKey |-> accessCall.user],
                                         nextErrorId, now)
            IN /\ errors' = IF error.code # "ACCOUNT_NOT_FOUND"
                            THEN [errors EXCEPT !.userLeaf = error] ELSE errors
               /\ userLeafData' = Null
               /\ claimed' = FALSE
               /\ nextErrorId' = nextErrorId + 1
               /\ now' = now + 1
       ELSE /\ userLeafData' = accessOutcome.value
            /\ claimed' = (IF IsAbsent(accessOutcome.value) THEN FALSE
                           ELSE accessOutcome.value.isClaimed)
            /\ errors' = [errors EXCEPT !.userLeaf = Null]
            /\ UNCHANGED <<nextErrorId, now>>
    /\ loading' = [loading EXCEPT !.userLeaf = FALSE]
    /\ pc' = "rendered"
    /\ UNCHANGED <<entry, opContext, config, attempt, invocations, delays, lastError,
                   lastThrown, lastResolved, failures, retryableFailures, outcome, accessCall,
                   sdkCalls, sdkReply, logs, accessOutcome, classVars, batchVars,
                   queryVars,
                   pageVars>>

\* An error an earlier fetch left on the page
EarlierPageError == StreamFlowError("RPC_ERROR", <<"r","p","c">>, EmptyContext, TRUE, 0)

InitAccess ==
    /\ accessCall \in AccessCalls
    /\ entry = (IF accessCall.fn = "getAirdrops" THEN "handleAsyncOperationWithRetry"
                ELSE "handleAsyncOperation")
    /\ opContext = AccessContext(accessCall)
    /\ config = (IF accessCall.fn = "getAirdrops" THEN GetAirdropsConfig
                 ELSE DEFAULT_RETRY_CONFIG)
    /\ pc = "start"
    /\ attempt = 0
    /\ invocations = 0
    /\ delays = <<>>
    /\ lastError = Undefined
    /\ lastThrown = Undefined
    /\ lastResolved = Undefined
    /\ failures = 0
    /\ retryableFailures = 0
    /\ outcome = Pending
    /\ sdkCalls = 0
    /\ sdkReply = Undefined
    /\ logs = <<>>
    /\ accessOutcome = Pending
    /\ errors \in (IF CalledByPage
                   THEN {[airdrop |-> Null, userLeaf |-> e] : e \in {Null, EarlierPageError}}
                   ELSE {[airdrop |-> Null, userLeaf |-> Null]})
    /\ userLeafData = Undefined
    /\ loading = [airdrop |-> ~CalledByPage, userLeaf |-> FALSE]
    /\ claimed = FALSE
    /\ nextErrorId = 1
    /\ now = 1
    /\ ClassifyIdle
    /\ BatchIdle
    /\ QueryIdle
    /\ PageIdle

NextAccess ==
    \/ GetAirdropsBegin \/ SearchResolves \/ SearchRejects \/ SearchRetryTimer
    \/ GetAirdropDetailsBegin \/ GetDistributorsResolves \/ GetDistributorsRejects
    \/ GetUserLeafBegin \/ GetClaimResolves \/ GetClaimRejects
    \/ FetchUserLeafContinues

SpecAccess == InitAccess /\ [][NextAccess]_vars

----------------------------------------------------------------------------
(* Claims about getAirdrops *)

\* getAirdrops returned after client.searchDistributors resolved with a list
AirdropsReturnedList ==
    /\ accessCall.fn = "getAirdrops"
    /\ pc = "done"
    /\ failures < invocations
    /\ sdkReply.kind = "array"

\* The record has a publicKey, an account object and an account.version
HasRequiredFields(record) ==
    /\ record.kind = "object"
    /\ ~IsAbsent(record.publicKey)
    /\ ~IsAbsent(record.account)
    /\ record.account.kind = "object"
    /\ ~IsAbsent(record.account.version)

\* The record's publicKey is a PublicKey and its version fits a number
CanBeSummarized(record) ==
    /\ record.publicKey.kind = "PublicKey"
    /\ "wide" \notin DOMAIN record.account.version

\* The version a record's summary carries: 0 when the version is not a number
SummaryVersion(record) ==
    IF record.account.version.kind = "BN" THEN record.account.version.n ELSE 0

\* The indices of the raw records that are summarized
SummarizedIndices ==
    {i \in 1..Len(sdkReply.items) :
        HasRequiredFields(sdkReply.items[i]) /\ CanBeSummarized(sdkReply.items[i])}

\* How many summaries of the result / summarized records have this key and version
InResult(key, version) ==
    Cardinality({n \in 1..Len(accessOutcome.value) :
                    /\ accessOutcome.value[n].publicKey = key
                    /\ accessOutcome.value[n].version = version})
InRecords(key, version) ==
    Cardinality({i \in SummarizedIndices :
                    /\ sdkReply.items[i].publicKey.key = key
                    /\ SummaryVersion(sdkReply.items[i]) = version})

SummaryKeys == {"A", "B", "C"}
SummaryVersions == 0..3

PositiveLimit == accessCall.limit.kind = "number" /\ accessCall.limit.n > 0

\* C17: getAirdrops returns summaries of the valid records sorted by version in
\* descending order; with a positive limit their number is min(limit, number of
\* valid summaries), otherwise (limit absent, zero or negative) all of them; and
\* a summary left out by the limit has a version no higher than any one returned.
C17_SortedAndLimited ==
    AirdropsReturnedList =>
        /\ accessOutcome.state = "resolved"
        /\ \A m, n \in 1..Len(accessOutcome.value) :
              m < n => accessOutcome.value[m].version >= accessOutcome.value[n].version
        /\ Len(accessOutcome.value) =
              (IF PositiveLimit /\ accessCall.limit.n < Cardinality(SummarizedIndices)
               THEN accessCall.limit.n ELSE Cardinality(SummarizedIndices))
        /\ \A k \in SummaryKeys, v \in SummaryVersions :
              /\ InResult(k, v) <= InRecords(k, v)
              /\ InResult(k, v) < InRecords(k, v) =>
                    \A n \in 1..Len(accessOutcome.value) : accessOutcome.value[n].version >= v

\* C17 witness: of the ten valid records among twelve, limit 2 kept two of
\* version 3.
C17_Witness ==
    /\ AirdropsReturnedList
    /\ sdkReply = JsArray(TwelveRecords)
    /\ accessCall.limit = JsNumber(2)
    /\ Len(accessOutcome.value) = 2
    /\ accessOutcome.value[1].version = 3
    /\ accessOutcome.value[2].version = 3

\* C17 witness without a limit in force: three records returned in the order
\* of versions 2, 1, 0.
C17_WitnessUnlimited ==
    /\ AirdropsReturnedList
    /\ accessCall.limit = JsNumber(0)
    /\ Len(sdkReply.items) = 3
    /\ Len(accessOutcome.value) = 3
    /\ accessOutcome.value[1].version = 2
    /\ accessOutcome.value[2].version = 1
    /\ accessOutcome.value[3].version = 0
    /\ sdkReply.items[1].account.version = JsText("abc")

\* No limit is in force
Unlimited == ~PositiveLimit

\* The record at index i (from 0) has a log entry of this level
Logged(level, i) == \E n \in 1..Len(logs) : logs[n].level = level /\ logs[n].index = i

C18_WitnessUntransformable ==
    /\ AirdropsReturnedList
    /\ sdkReply = JsArray(<<Distributor(PublicKeyObject("B"), Account(WideBN)),
                            Distributor(PublicKeyObject("A"), Account(BN(1)))>>)
    /\ Len(accessOutcome.value) = 1
    /\ Logged("error", 0)

----------------------------------------------------------------------------
(* getAirdropDetails and getUserAirdropLeafData: not-found outcomes *)

\* The exported function fn has returned to its caller
LookupFinished(fn) == accessCall.fn = fn /\ pc \in {"done", "rendered"}

\* The SDK call was made and resolved
SdkResolved == sdkCalls = 1 /\ outcome.state = "resolved" /\ IsAbsent(outcome.value.error)

\* The SDK call was made and failed, and the wrapper classified the failure as
\* ACCOUNT_NOT_FOUND
SdkFailedNotFound ==
    /\ sdkCalls = 1
    /\ outcome.state = "resolved"
    /\ ~IsAbsent(outcome.value.error)
    /\ outcome.value.error.code = "ACCOUNT_NOT_FOUND"

\* The SDK returned no record for the identifier
NoDistributorRecord ==
    SdkResolved /\ (IsAbsent(sdkReply) \/ Len(sdkReply.items) = 0 \/ IsAbsent(sdkReply.items[1]))

C19_WitnessNoRecord ==
    /\ LookupFinished("getAirdropDetails")
    /\ NoDistributorRecord
    /\ sdkReply = JsArray(<<>>)
    /\ accessOutcome = Resolved(Null)

\* getClaim returned no record, or a record that is not a claim status
NoClaimRecord ==
    SdkResolved /\ ((~Truthy(sdkReply)) \/ ~isStreamflowClaimStatus(sdkReply))

\* The detail page has recorded a userLeaf error
PageRecordsUserLeafError == CalledByPage /\ pc = "rendered" /\ ~IsAbsent(errors.userLeaf)

\* C20: for every not-found outcome of the per-user claim lookup (getClaim
\* returning no record or an invalid record, or failing with a failure
\* classified as ACCOUNT_NOT_FOUND), getUserAirdropLeafData resolves to null
\* rather than throwing, and the detail page records no userLeaf error.
C20_NotFoundIsNull ==
    (LookupFinished("getUserAirdropLeafData") /\ (NoClaimRecord \/ SdkFailedNotFound))
        => (accessOutcome = Resolved(Null) /\ ~PageRecordsUserLeafError)

\* The part of C20 the page keeps: no userLeaf error for a not-found outcome
C20_PageShowsNoError ==
    (LookupFinished("getUserAirdropLeafData") /\ (NoClaimRecord \/ SdkFailedNotFound))
        => ~PageRecordsUserLeafError

\* getClaim failed with "Account not found" and getUserAirdropLeafData threw
C20_Rejected ==
    /\ LookupFinished("getUserAirdropLeafData")
    /\ SdkFailedNotFound
    /\ lastThrown = JsError(Capitalized(ACCOUNT_NOT_FOUND_TEXT))
    /\ accessOutcome.state = "rejected"

----------------------------------------------------------------------------
(* Propagation out of the exported data-access functions *)

\* C21: every failure in the data-access layer is intercepted at the
\* operation wrapper and converted into a result value: no exported
\* data-access function propagates an exception to its caller, that is, the
\* promise an exported function returns is never rejected.
C21_NoExceptionEscapes == accessOutcome.state # "rejected"

\* The wrapper itself did return a result value for the failure that the
\* exported function then threw
C21_WrapperIntercepted ==
    accessOutcome.state = "rejected"
        => /\ outcome.state = "resolved"
           /\ outcome.value.error = accessOutcome.reason

\* getAirdrops threw what its wrapper had returned as a result
C21_Escaped ==
    /\ accessCall.fn = "getAirdrops"
    /\ outcome.state = "resolved"
    /\ accessOutcome.state = "rejected"
    /\ accessOutcome.reason = outcome.value.error

----------------------------------------------------------------------------
(* What the wrappers and withRetry stamp into the context of an error *)

HasField(context, key) == key \in DOMAIN context

\* The wrapper's catch block ran with this errorId
StampedByWrapper(error) ==
    /\ HasField(error.context, "operation")
    /\ error.context.operation = OperationName
    /\ HasField(error.context, "errorId")
    /\ error.context.errorId = nextErrorId - 1

\* A wrapper has returned an error
WrapperReturnedError ==
    Finished /\ IsWrapper /\ outcome.state = "resolved" /\ ~IsAbsent(outcome.value.error)

\* C25: whenever handleAsyncOperation or handleAsyncOperationWithRetry returns
\* an error, the error's context holds the operation name under 'operation'
\* and a freshly generated 'errorId', whatever the wrapped operation threw.
C25_ErrorIsStamped == WrapperReturnedError => StampedByWrapper(outcome.value.error)

\* What does hold: handleAsyncOperation stamps every error it classifies itself
C25_PlainWrapperStampsUnclassified ==
    (WrapperReturnedError /\ entry = "handleAsyncOperation" /\ ~IsStreamFlowError(lastThrown))
        => StampedByWrapper(outcome.value.error)

\* handleAsyncOperationWithRetry returned the error of a generic Error without
\* operation or errorId
C25_Unstamped ==
    /\ WrapperReturnedError
    /\ entry = "handleAsyncOperationWithRetry"
    /\ lastThrown = JsError(BOOM)
    /\ ~HasField(outcome.value.error.context, "operation")
    /\ ~HasField(outcome.value.error.context, "errorId")

\* withRetry's catch block has just run for the attempt whose index is attempt
JustFailedInRetry == UsesRetry /\ failures > 0 /\ (pc = "sleeping" \/ Failed)

CarriesAttempt(error) ==
    /\ HasField(error.context, "attempt")
    /\ error.context.attempt = attempt
    /\ HasField(error.context, "maxRetries")
    /\ error.context.maxRetries = config.maxRetries

\* The error withRetry throws once it gives up
ThrownByRetry == IF entry = "withRetry" THEN outcome.reason ELSE outcome.value.error

\* C26 as stated: for every failed attempt inside withRetry, the classified
\* error used for the retry decision (and thrown on exhaustion) carries that
\* attempt's index under 'attempt' and the configured 'maxRetries' in its
\* context, for any kind of thrown value.
C26_AttemptInContext == JustFailedInRetry => CarriesAttempt(lastError)

\* C26 amended: the classified error of a failed attempt carries the attempt's
\* index and the configured maxRetries when the thrown value is not already a
\* StreamFlowError; a thrown StreamFlowError is used as it is, with its own
\* context. The error thrown on giving up is that same error.
C26_AttemptUnlessClassified ==
    JustFailedInRetry =>
        /\ IF IsStreamFlowError(lastThrown) THEN lastError = lastThrown
           ELSE CarriesAttempt(lastError)
        /\ Failed => ThrownByRetry = lastError

\* The second attempt threw a generic Error and withRetry gave up with an
\* error that carries attempt 1
C26_Witness ==
    /\ JustFailedInRetry
    /\ Failed
    /\ attempt = 1
    /\ lastThrown = JsError(BOOM)
    /\ CarriesAttempt(lastError)
    /\ ThrownByRetry = lastError

\* An attempt threw a StreamFlowError and the error kept its own context
C26_WitnessClassified ==
    /\ JustFailedInRetry
    /\ IsStreamFlowError(lastThrown)
    /\ lastError = lastThrown
    /\ ~HasField(lastError.context, "attempt")

----------------------------------------------------------------------------
(* hooks/useGetAirdropsQuery.ts and useBatchUserAirdropData: one query and its
   retries; app/layout.tsx: ErrorDisplay *)

MaxRetryClicks == 1

AirdropsHook == "useGetAirdropsWithErrorStates"
BatchHook == "useBatchUserAirdropDataWithErrorStates"

\* A retry predicate that only counts.
AirdropsRetryOnce(count, error) == count < 1

\* useGetAirdropsQuery: retry: (failureCount, error) => ...
AirdropsRetry(count, error) ==
    IF IsStreamFlowError(error)
    THEN (IF ~error.retryable THEN FALSE ELSE count < 2)
    ELSE count < 1

\* A retry predicate that only counts.
BatchRetryCountOnly(count, error) == count < 1

\* useBatchUserAirdropData: retry: (failureCount, error) => ...
BatchRetry(count, error) ==
    IF IsStreamFlowError(error)
    THEN (IF \/ error.code = "WALLET_NOT_CONNECTED"
             \/ error.code = "INVALID_PUBLIC_KEY"
             \/ ~error.retryable
          THEN FALSE
          ELSE count < 1)
    ELSE count < 1

HookRetry(h, count, error) ==
    IF h = AirdropsHook THEN AirdropsRetry(count, error) ELSE BatchRetry(count, error)

\* An affordance that looks at the fetch state only.
CanRetryWhenIdle(h) == (~IsAbsent(queryError)) /\ ~isFetching

\* canRetry: query.error?.retryable && !query.isFetching (&& !!userWalletPublicKey)
CanRetry(h) ==
    /\ ~IsAbsent(queryError)
    /\ queryError.retryable
    /\ ~isFetching
    /\ (h = BatchHook => ~IsFalsy(userWallet))

\* The test of retryOperation: query.error?.retryable (&& userWalletPublicKey)
RetryOperationRefetches(h) ==
    /\ ~IsAbsent(queryError)
    /\ queryError.retryable
    /\ (h = BatchHook => ~IsFalsy(userWallet))

\* ErrorDisplay: error.retryable && onRetry
ShowsTryAgain(error, retryProp) == error.retryable /\ Truthy(retryProp)

\* The call useGetAirdropsQuery's queryFn makes: getAirdrops(mint, admin, limit)
HookGetAirdropsCall ==
    [fn |-> "getAirdrops", limit |-> JsNumber(25), caller |-> "useGetAirdropsQuery"]

INVALID_AIRDROP_ID == <<"I","n","v","a","l","i","d"," ","a","i","r","d","r","o","p"," ","I","D"," ","p","r","o","v","i","d","e","d">>

\* The details effect of the page: new StreamFlowError(INVALID_PUBLIC_KEY, ...)
InvalidAirdropId(airdropId, t) ==
    StreamFlowError("INVALID_PUBLIC_KEY", INVALID_AIRDROP_ID, [airdropId |-> airdropId],
                    FALSE, t)

DEFAULT_USER_MESSAGE == "An unexpected error occurred. Please try again."

\* A getUserMessage that shows the error's own message when it has no case.
getUserMessageOrOwn(error) ==
    CASE error.code = "NETWORK_ERROR" ->
            "Network connection failed. Please check your internet connection and try again."
      [] OTHER -> error.message

\* StreamFlowError.getUserMessage()
getUserMessage(error) ==
    CASE error.code = "NETWORK_ERROR" ->
            "Network connection failed. Please check your internet connection and try again."
      [] error.code = "CONNECTION_TIMEOUT" -> "Request timed out. Please try again."
      [] error.code = "RPC_ERROR" -> "Blockchain connection failed. Please try again later."
      [] error.code = "ACCOUNT_NOT_FOUND" -> "The requested account could not be found."
      [] error.code = "DISTRIBUTOR_NOT_FOUND" -> "The airdrop campaign could not be found."
      [] error.code = "INVALID_PUBLIC_KEY" -> "Invalid address format provided."
      [] error.code = "WALLET_NOT_CONNECTED" -> "Please connect your wallet to continue."
      [] error.code = "WALLET_DISCONNECTED" ->
            "Wallet was disconnected. Please reconnect to continue."
      [] error.code = "TRANSACTION_FAILED" -> "Transaction failed. Please try again."
      [] error.code = "TRANSACTION_TIMEOUT" -> "Transaction timed out. Please try again."
      [] error.code = "INVALID_DATA_FORMAT" -> "The received data format is invalid."
      [] error.code = "UNAUTHORIZED" -> "You are not authorized to perform this action."
      [] OTHER -> DEFAULT_USER_MESSAGE

\* errorMessage: query.error?.getUserMessage() || null, and ErrorDisplay's text
ErrorMessage == IF IsAbsent(queryError) THEN Null ELSE JsOther(getUserMessage(queryError))

\* What the validation helpers and the hook throw inside the batch queryFn
HelperFailures ==
    {validateRequired(Null, USER_ARG, 0).error,
     validatePublicKey("X", USER_FIELD, 0).error,
     WalletNotConnected(1, 0)}

\* What the batch queryFn may reject with before its catch block classifies it
BatchFailures ==
    (ThrownValues \ {Null}) \cup {JsError(INVALID_PUBLIC_KEY_TEXT)} \cup HelperFailures

\* The errors ErrorDisplay may be given
DisplayErrors ==
    {createStreamFlowError(thrown, EmptyContext, 0) : thrown \in ThrownValues}
    \cup {InvalidAirdropId(Undefined, 0)}

\* A run of queryFn starts: getAirdrops is called afresh
QueryFnStarts ==
    IF hook = AirdropsHook
    THEN /\ pc' = "start"
         /\ attempt' = 0
         /\ invocations' = 0
         /\ delays' = <<>>
         /\ lastError' = Undefined
         /\ outcome' = Pending
         /\ accessOutcome' = Pending
         /\ UNCHANGED <<entry, opContext, config, lastThrown, lastResolved, failures,
                        retryableFailures, accessCall, sdkCalls, sdkReply, logs, errors,
                        userLeafData, loading, claimed>>
    ELSE UNCHANGED <<retryVars, accessVars>>

\* The query layer after queryFn rejected with error: the retry predicate decides
QueryFnFailed(error) ==
    /\ failureReason' = error
    /\ failureCount' = failureCount + 1
    /\ IF HookRetry(hook, failureCount, error)
       THEN /\ queryPc' = "retryWait"
            /\ UNCHANGED <<queryError, isFetching>>
       ELSE /\ queryError' = error
            /\ isFetching' = FALSE
            /\ queryPc' = "settled"
    /\ UNCHANGED <<hook, queryData, queryFnRuns, retryClicks, retriedOn, onRetry,
                   tryAgainShown>>

\* The query layer after queryFn resolved with data
QueryFnSucceeded(data) ==
    /\ queryData' = data
    /\ queryError' = Null
    /\ isFetching' = FALSE
    /\ failureCount' = 0
    /\ failureReason' = Null
    /\ queryPc' = "settled"
    /\ UNCHANGED <<hook, queryFnRuns, retryClicks, retriedOn, onRetry, tryAgainShown>>

\* useGetAirdropsQuery's queryFn after the awaited getAirdrops settled
AirdropsQueryFnSettles ==
    /\ hook = AirdropsHook
    /\ queryPc = "fetching"
    /\ pc = "done"
    /\ IF accessOutcome.state = "rejected"
       THEN /\ QueryFnFailed(QueryErrorHandler("getAirdrops", accessOutcome.reason,
                                               nextErrorId, now))
            /\ nextErrorId' = nextErrorId + 1
            /\ now' = now + 1
       ELSE /\ QueryFnSucceeded(accessOutcome.value)
            /\ UNCHANGED <<nextErrorId, now>>
    /\ UNCHANGED <<classVars, retryVars, batchVars, accessVars,
                   pageVars>>

\* useBatchUserAirdropData's queryFn settles: it returns the mapping, or its
\* catch block throws what createQueryErrorHandler makes of the failure
BatchQueryFnSettles ==
    /\ hook = BatchHook
    /\ queryPc = "fetching"
    /\ \/ /\ QueryFnSucceeded(EmptyContext)
          /\ UNCHANGED <<nextErrorId, now>>
       \/ \E thrown \in BatchFailures :
            /\ QueryFnFailed(QueryErrorHandler(BatchQueryName, thrown, nextErrorId, now))
            /\ nextErrorId' = nextErrorId + 1
            /\ now' = now + 1
    /\ UNCHANGED <<classVars, retryVars, batchVars, accessVars,
                   pageVars>>

\* The retry delay of the query has passed: queryFn runs again
QueryRetryTimer ==
    /\ queryPc = "retryWait"
    /\ queryPc' = "fetching"
    /\ queryFnRuns' = queryFnRuns + 1
    /\ QueryFnStarts
    /\ UNCHANGED <<hook, failureCount, queryError, queryData, isFetching, retryClicks,
                   failureReason, retriedOn, onRetry, tryAgainShown, classVars, batchVars,
                   nextErrorId, now,
                   pageVars>>

\* retryOperation() is called: it refetches when its test passes
RetryOperation ==
    /\ hook \in {AirdropsHook, BatchHook}
    /\ queryPc \in {"fetching", "retryWait", "settled"}
    /\ retryClicks < MaxRetryClicks
    /\ retryClicks' = retryClicks + 1
    /\ IF RetryOperationRefetches(hook)
       THEN /\ retriedOn' = queryError
            /\ queryError' = Null
            /\ isFetching' = TRUE
            /\ failureCount' = 0
            /\ failureReason' = Null
            /\ queryPc' = "fetching"
            /\ queryFnRuns' = queryFnRuns + 1
            /\ QueryFnStarts
       ELSE UNCHANGED <<retriedOn, queryError, isFetching, failureCount, failureReason,
                        queryPc, queryFnRuns, retryVars, accessVars>>
    /\ UNCHANGED <<hook, queryData, onRetry, tryAgainShown, classVars, batchVars,
                   nextErrorId, now,
                   pageVars>>

\* ErrorDisplay renders
Render ==
    /\ hook = "ErrorDisplay"
    /\ queryPc = "props"
    /\ tryAgainShown' = ShowsTryAgain(queryError, onRetry)
    /\ queryPc' = "rendered"
    /\ UNCHANGED <<hook, failureCount, queryError, queryData, isFetching, queryFnRuns,
                   retryClicks, failureReason, retriedOn, onRetry, classVars, retryVars,
                   batchVars, accessVars, nextErrorId, now,
                   pageVars>>

\* The Try Again button is clicked: onRetry is called
ClickTryAgain ==
    /\ hook = "ErrorDisplay"
    /\ queryPc = "rendered"
    /\ tryAgainShown
    /\ retryClicks < MaxRetryClicks
    /\ retryClicks' = retryClicks + 1
    /\ retriedOn' = queryError
    /\ UNCHANGED <<hook, queryPc, failureCount, queryError, queryData, isFetching,
                   queryFnRuns, failureReason, onRetry, tryAgainShown, classVars, retryVars,
                   batchVars, accessVars, nextErrorId, now,
                   pageVars>>

InitQuery ==
    /\ hook \in {AirdropsHook, BatchHook, "ErrorDisplay"}
    /\ failureCount = 0
    /\ queryData = Undefined
    /\ queryFnRuns = (IF hook = "ErrorDisplay" THEN 0 ELSE 1)
    /\ retryClicks = 0
    /\ failureReason = Null
    /\ retriedOn = Null
    /\ tryAgainShown = FALSE
    /\ isFetching = (hook # "ErrorDisplay")
    /\ queryPc = (IF hook = "ErrorDisplay" THEN "props" ELSE "fetching")
    /\ queryError \in (IF hook = "ErrorDisplay" THEN DisplayErrors ELSE {Null})
    /\ onRetry \in (IF hook = "ErrorDisplay"
                    THEN {Undefined, JsOther("retryUserDataFetch")} ELSE {Undefined})
    \* the getAirdrops call of the first run of queryFn
    /\ accessCall = (IF hook = AirdropsHook THEN HookGetAirdropsCall ELSE [fn |-> "none"])
    /\ entry = (IF hook = AirdropsHook THEN "handleAsyncOperationWithRetry" ELSE "none")
    /\ opContext = (IF hook = AirdropsHook THEN GetAirdropsContext(HookGetAirdropsCall)
                    ELSE EmptyContext)
    /\ config = (IF hook = AirdropsHook THEN GetAirdropsConfig ELSE EmptyContext)
    /\ pc = (IF hook = AirdropsHook THEN "start" ELSE "idle")
    /\ attempt = 0
    /\ invocations = 0
    /\ delays = <<>>
    /\ lastError = Undefined
    /\ lastThrown = Undefined
    /\ lastResolved = Undefined
    /\ failures = 0
    /\ retryableFailures = 0
    /\ outcome = Pending
    /\ sdkCalls = 0
    /\ sdkReply = Undefined
    /\ logs = <<>>
    /\ accessOutcome = Pending
    /\ errors = [airdrop |-> Null, userLeaf |-> Null]
    /\ userLeafData = Undefined
    /\ loading = [airdrop |-> TRUE, userLeaf |-> FALSE]
    /\ claimed = FALSE
    \* the arguments of the batch hook
    /\ batchPc = "idle"
    /\ airdropPublicKeys = (IF hook = BatchHook THEN JsArray(<<JsText("A")>>) ELSE <<>>)
    /\ userWallet = (IF hook = BatchHook THEN JsText("U") ELSE Undefined)
    /\ derivationFails = {}
    /\ claimStatusPdas = <<>>
    /\ lookups = <<>>
    /\ lookupOutcome = <<>>
    /\ claimResults = <<>>
    /\ issued = <<>>
    /\ settledOutOfOrder = FALSE
    /\ batchOutcome = Pending
    /\ queryFnOutcome = NotCalled
    /\ nextErrorId = 1
    /\ now = 1
    /\ ClassifyIdle
    /\ PageIdle

NextQuery ==
    \/ GetAirdropsBegin \/ SearchResolves \/ SearchRejects \/ SearchRetryTimer
    \/ AirdropsQueryFnSettles \/ BatchQueryFnSettles \/ QueryRetryTimer \/ RetryOperation
    \/ Render \/ ClickTryAgain

SpecQuery == InitQuery /\ [][NextQuery]_vars

----------------------------------------------------------------------------
(* Claims about the query hooks and the retry affordance *)

\* The query layer has decided to run queryFn again after a failure
RetryAllowed == queryPc = "retryWait"

\* The query has given up and surfaced the error
ErrorSurfaced == queryPc = "settled" /\ ~IsAbsent(queryError)

\* C22: the retry predicate of the batch query never allows a retry for an
\* error of kind WALLET_NOT_CONNECTED or INVALID_PUBLIC_KEY or for any error
\* with retryable = false, whatever the failure count; for a retryable error
\* it allows at most one retry (only while failureCount < 1).
C22_BatchRetryPredicate ==
    hook = BatchHook =>
        /\ RetryAllowed =>
              /\ failureReason.retryable
              /\ failureReason.code \notin {"WALLET_NOT_CONNECTED", "INVALID_PUBLIC_KEY"}
              /\ failureCount = 1
        /\ (ErrorSurfaced /\ queryError.retryable) => failureCount = 2
        /\ failureCount <= 2

\* A retryable failure of the batch query is being retried, for the first time
C22_Witness ==
    /\ hook = BatchHook
    /\ RetryAllowed
    /\ failureReason.code = "NETWORK_ERROR"
    /\ failureCount = 1

\* A wallet error was surfaced after a single run of the batch queryFn
C22_WitnessWallet ==
    /\ hook = BatchHook
    /\ ErrorSurfaced
    /\ queryError.code = "WALLET_NOT_CONNECTED"
    /\ queryFnRuns = 1

\* A retryable failure was surfaced after the one retry
C22_WitnessGaveUp ==
    /\ hook = BatchHook
    /\ ErrorSurfaced
    /\ queryError.retryable
    /\ queryFnRuns = 2
    /\ retryClicks = 0

NeverRetriedKinds ==
    {"WALLET_NOT_CONNECTED", "INVALID_PUBLIC_KEY", "MISSING_REQUIRED_FIELD",
     "TYPE_VALIDATION_ERROR", "INVALID_DATA_FORMAT"}

OffersRetryFor(error) == error.retryable /\ error.code \notin NeverRetriedKinds

\* C23: a retry affordance is offered only for retryable errors: canRetry is
\* true, ErrorDisplay shows its Try Again button, and the manual retry trigger
\* refetches, only if the current error has retryable = true, so errors of kind
\* WALLET_NOT_CONNECTED, INVALID_PUBLIC_KEY and the validation kinds never
\* offer or perform a retry.
C23_RetryOnlyIfRetryable ==
    /\ (hook \in {AirdropsHook, BatchHook} /\ CanRetry(hook)) => OffersRetryFor(queryError)
    /\ tryAgainShown => OffersRetryFor(queryError)
    /\ ~IsAbsent(retriedOn) => OffersRetryFor(retriedOn)

\* retryOperation refetched after a retryable error
C23_Witness ==
    /\ hook = AirdropsHook
    /\ ~IsAbsent(retriedOn)
    /\ retriedOn.retryable
    /\ isFetching

\* retryOperation was called on a non-retryable error and nothing was fetched
C23_WitnessRefused ==
    /\ hook = BatchHook
    /\ ErrorSurfaced
    /\ ~queryError.retryable
    /\ retryClicks = 1
    /\ IsAbsent(retriedOn)
    /\ ~CanRetry(hook)

\* ErrorDisplay was given a retry callback and a non-retryable error and
\* rendered no button
C23_WitnessNoButton ==
    /\ hook = "ErrorDisplay"
    /\ queryPc = "rendered"
    /\ Truthy(onRetry)
    /\ ~queryError.retryable
    /\ ~tryAgainShown

\* One fetch cycle of useGetAirdropsQuery, before any manual retry, has ended
\* with an error
AirdropsCycleFailed == hook = AirdropsHook /\ ErrorSurfaced /\ retryClicks = 0

\* C28: the two retry layers of the campaign list multiply: when the search
\* always fails with a retryable failure, each run of the query function makes
\* 3 search invocations and the query layer runs the query function 3 times,
\* so one fetch cycle invokes client.searchDistributors 9 times before the
\* error is surfaced; when it fails with a non-retryable failure it is invoked
\* exactly once.
C28_RetryLayersMultiply ==
    AirdropsCycleFailed =>
        /\ (retryableFailures = failures) => (sdkCalls = 9 /\ queryFnRuns = 3)
        /\ (retryableFailures = 0) => (sdkCalls = 1 /\ queryFnRuns = 1)

\* Nine failed searches, all retryable, in three runs of three
C28_Witness ==
    /\ AirdropsCycleFailed
    /\ retryableFailures = failures
    /\ sdkCalls = 9
    /\ invocations = 3
    /\ queryFnRuns = 3

\* One failed search, not retryable, and the error was surfaced
C28_WitnessOnce ==
    /\ AirdropsCycleFailed
    /\ retryableFailures = 0
    /\ sdkCalls = 1

\* The kinds whose errors are retryable
RetryableKinds == {"NETWORK_ERROR", "CONNECTION_TIMEOUT", "RPC_ERROR", "UNKNOWN_ERROR"}

\* The kinds getUserMessage has a case for
DedicatedKinds ==
    {"NETWORK_ERROR", "CONNECTION_TIMEOUT", "RPC_ERROR", "ACCOUNT_NOT_FOUND",
     "DISTRIBUTOR_NOT_FOUND", "INVALID_PUBLIC_KEY", "WALLET_NOT_CONNECTED",
     "WALLET_DISCONNECTED", "TRANSACTION_FAILED", "TRANSACTION_TIMEOUT",
     "INVALID_DATA_FORMAT", "UNAUTHORIZED"}

\* The errors the hooks and the display hold in this state
ErrorsInState == {e \in {queryError, failureReason, retriedOn, lastError} : ~IsAbsent(e)}

\* The same kind of error with another message, context and time
SameKind(e) == StreamFlowError(e.code, <<>>, EmptyContext, e.code \in RetryableKinds, 0)

\* C24: each error kind has one fixed retryability: every StreamFlowError the
\* classifier, the validation helpers, the data-access functions and the hooks
\* produce carries the retryable flag of its code, and getUserMessage returns
\* the same message for the same code, the default message for every code
\* without a dedicated case.
C24_FixedRetryabilityAndMessage ==
    \A e \in ErrorsInState :
        /\ e.code \in ErrorCode
        /\ e.retryable = (e.code \in RetryableKinds)
        /\ getUserMessage(e) = getUserMessage(SameKind(e))
        /\ e.code \notin DedicatedKinds => getUserMessage(e) = DEFAULT_USER_MESSAGE

\* The INVALID_PUBLIC_KEY error of validatePublicKey was surfaced: not
\* retryable, like the classifier's
C24_Witness ==
    /\ hook = BatchHook
    /\ ErrorSurfaced
    /\ queryError.code = "INVALID_PUBLIC_KEY"
    /\ "keyString" \in DOMAIN queryError.context
    /\ ~queryError.retryable
    /\ ErrorMessage = JsOther("Invalid address format provided.")

\* The classifier's INVALID_PUBLIC_KEY error was surfaced
C24_WitnessClassifier ==
    /\ hook = BatchHook
    /\ ErrorSurfaced
    /\ queryError.code = "INVALID_PUBLIC_KEY"
    /\ "query" \in DOMAIN queryError.context
    /\ ~queryError.retryable

\* An error of a kind without a dedicated message was surfaced
C24_WitnessDefault ==
    /\ ErrorSurfaced
    /\ queryError.code = "MISSING_REQUIRED_FIELD"
    /\ ErrorMessage = JsOther(DEFAULT_USER_MESSAGE)

\* ---------------------------------------------------------------------------
\* The airdrop detail page (AirdropPageContent): the details effect, the
\* user-allocation effect, handleClaim and retryUserDataFetch, with the calls
\* they await completing in any order.
\* ---------------------------------------------------------------------------

\* How many fetches the page starts in one behaviour
MaxFetches == 3

\* The campaigns the route parameter names
Routes == {"A", "B"}
\* The wallets a user may connect
PageWallets == {"U", "C"}

\* The allocation the chain holds for a wallet in a campaign; every pair has its own
Allocation(airdrop, user) ==
    (IF airdrop = "A" THEN 0 ELSE 2) + (IF user = "U" THEN 1 ELSE 2)

\* What client.getDistributors may do for the page
PageDistributorOutcomes ==
    {LookupReturns(JsArray(<<Account(BN(1))>>)), LookupReturns(JsArray(<<>>)),
     LookupThrows(JsError(NETWORK))}

\* What client.getClaim may do for a wallet in a campaign
PageClaimOutcomes(airdrop, user) ==
    {LookupReturns(ClaimRecord(BN(Allocation(airdrop, user)), BN(0), BN(0), JsBool(closed))) :
        closed \in BOOLEAN}
    \cup {LookupReturns(Null), LookupThrows(JsError(NETWORK)),
          LookupThrows(JsError(ACCOUNT_DOES_NOT_EXIST))}

\* An exported lookup of streamflow.ts, from its call to the promise it returns
LookupPromise(call, lookup, id, t) ==
    LET check == ArgumentCheck(call, t)
        result == IF check.threw
                  THEN FailureResult(WrapperClassify(check.error, call.fn, AccessContext(call),
                                                     id, t))
                  ELSE IF lookup.kind = "throws"
                  THEN FailureResult(WrapperClassify(lookup.thrown, call.fn,
                                                     AccessContext(call), id, t))
                  ELSE IF call.fn = "getAirdropDetails"
                  THEN SuccessResult(DetailsOperationResult(call, lookup.value))
                  ELSE SuccessResult(LeafOperationResult(lookup.value))
    IN AccessReturn(call, result)

\* await handleAsyncOperation(() => lookup, operationName, context) of the page
PageAwait(promise, operationName, context, id, t) ==
    IF promise.state = "rejected"
    THEN FailureResult(WrapperClassify(promise.reason, operationName, context, id, t))
    ELSE SuccessResult(promise.value)

\* const { data, error } of fetchDetails
FetchDetailsResult(fetch, lookup, id, t) ==
    PageAwait(LookupPromise([fn |-> "getAirdropDetails",
                             publicKeyString |-> JsText(fetch.airdrop)], lookup, id, t),
              "getAirdropDetails", [publicKeyString |-> JsText(fetch.airdrop)], id + 1, t)

\* const { data, error } of fetchUserLeaf
FetchUserLeafResult(fetch, lookup, id, t) ==
    PageAwait(LookupPromise([fn |-> "getUserAirdropLeafData",
                             distributor |-> JsText(fetch.airdrop),
                             user |-> JsText(fetch.wallet)], lookup, id, t),
              "getUserAirdropLeafData",
              [distributorPublicKey |-> JsText(fetch.airdrop),
               userWalletPublicKey |-> JsText(fetch.wallet)], id + 1, t)

\* The state of the component that the effects and handlers set
PageView ==
    [airdropData |-> airdropData, userLeafData |-> userLeafData, loading |-> loading,
     errors |-> errors, claimed |-> claimed]

SetView(v) ==
    /\ airdropData' = v.airdropData
    /\ userLeafData' = v.userLeafData
    /\ loading' = v.loading
    /\ errors' = v.errors
    /\ claimed' = v.claimed

\* airdropPublicKeyString && typeof airdropPublicKeyString === 'string'
IsRouteString(id) == id # ""

\* fetchDetails up to its await
FetchDetailsStarts(v) ==
    [v EXCEPT !.loading = [airdrop |-> TRUE, userLeaf |-> FALSE],
              !.airdropData = Undefined,
              !.userLeafData = Undefined,
              !.errors = [airdrop |-> Null, userLeaf |-> Null],
              !.claimed = FALSE]

\* The else branch of the details effect
DetailsEffectInvalid(v, id, t) ==
    [v EXCEPT !.airdropData = Null,
              !.loading.airdrop = FALSE,
              !.errors.airdrop = InvalidAirdropId(id, t)]

\* fetchDetails after its await
FetchDetailsContinues(v, result) ==
    IF ~IsAbsent(result.error)
    THEN [v EXCEPT !.errors.airdrop = result.error, !.airdropData = Null,
                   !.loading.airdrop = FALSE]
    ELSE [v EXCEPT !.airdropData = result.data, !.errors.airdrop = Null,
                   !.loading.airdrop = FALSE]

\* airdropData && 'publicKey' in airdropData
HasPublicKey(data) == ~IsAbsent(data) /\ "publicKey" \in DOMAIN data

\* The two early returns of the user-allocation effect
UserLeafEffectResets(v) ==
    [v EXCEPT !.userLeafData = Undefined, !.loading.userLeaf = FALSE,
              !.errors.userLeaf = Null, !.claimed = FALSE]

\* fetchUserLeaf up to its await; claimed is not among the state it sets
FetchUserLeafStarts(v) ==
    [v EXCEPT !.loading.userLeaf = TRUE, !.userLeafData = Undefined,
              !.errors.userLeaf = Null]

\* fetchUserLeaf after its await
FetchUserLeafSets(v, result) ==
    IF ~IsAbsent(result.error)
    THEN [v EXCEPT !.errors.userLeaf = IF result.error.code # "ACCOUNT_NOT_FOUND"
                                       THEN result.error ELSE @,
                   !.userLeafData = Null,
                   !.claimed = FALSE,
                   !.loading.userLeaf = FALSE]
    ELSE [v EXCEPT !.userLeafData = result.data,
                   !.claimed = (IF IsAbsent(result.data) THEN FALSE
                                ELSE result.data.isClaimed),
                   !.errors.userLeaf = Null,
                   !.loading.userLeaf = FALSE]

\* Whether the user-allocation effect, run for data and the wallet w, calls fetchUserLeaf
EffectFetches(data, w) == ~IsAbsent(w) /\ HasPublicKey(data)

\* The user-allocation effect up to the await of fetchUserLeaf
UserLeafEffect(v, w) ==
    IF EffectFetches(v.airdropData, w) THEN FetchUserLeafStarts(v) ELSE UserLeafEffectResets(v)

\* The fetch the user-allocation effect starts, numbered n
LeafFetch(n, data, w) == [n |-> n, airdrop |-> data.publicKey.key, wallet |-> w.text]

\* What the page shows: neither the skeleton of the whole page nor its error view
PageShown ==
    /\ ~(loading.airdrop \/ airdropData = Undefined)
    /\ ~(~IsAbsent(errors.airdrop) \/ IsAbsent(airdropData) \/ ~HasField(airdropData, "account")
         \/ ~Truthy(airdropData.account))

\* The allocation card shows ErrorDisplay with
\* onRetry={errors.userLeaf.retryable ? retryUserDataFetch : undefined}
UserRetryShown ==
    /\ PageShown
    /\ ~IsAbsent(wallet)
    /\ ~loading.userLeaf
    /\ ~IsAbsent(errors.userLeaf)
    /\ ShowsTryAgain(errors.userLeaf,
                     IF errors.userLeaf.retryable THEN JsOther("retryUserDataFetch")
                     ELSE Undefined)

\* The allocation card shows the Claim button
ClaimShown ==
    /\ PageShown
    /\ ~IsAbsent(wallet)
    /\ ~loading.userLeaf
    /\ IsAbsent(errors.userLeaf)
    /\ Truthy(userLeafData)
    /\ ~(userLeafData.isClaimed \/ claimed)

\* The state a handler other than handleClaim leaves, with the note that it wrote
\* claimed while the submission was pending
HandlerSets(v) ==
    /\ SetView(v)
    /\ claimedWritten' = (claimedWritten \/ (claimPc = "awaitClaim" /\ v.claimed # claimed))

\* The user-allocation effect after a render in which one of its dependencies changed
RunUserLeafEffect(v, w) ==
    /\ HandlerSets(UserLeafEffect(v, w))
    /\ IF EffectFetches(v.airdropData, w)
       THEN /\ fetchesStarted < MaxFetches
            /\ fetchesStarted' = fetchesStarted + 1
            /\ leafFetches' = leafFetches \cup {LeafFetch(fetchesStarted + 1, v.airdropData, w)}
            /\ latestLeaf' = [fetch |-> LeafFetch(fetchesStarted + 1, v.airdropData, w),
                              result |-> Undefined, kind |-> "fetch"]
       ELSE UNCHANGED <<fetchesStarted, leafFetches, latestLeaf>>

PagePinned ==
    UNCHANGED <<classVars, retryVars, batchVars, queryVars, accessCall, sdkCalls, sdkReply, logs,
                accessOutcome>>

\* useWallet() reports another wallet, or none: the component renders again and the
\* user-allocation effect runs
WalletChanges ==
    \E w \in ({JsText(k) : k \in PageWallets} \cup {Null}) \ {wallet} :
        /\ wallet' = w
        /\ RunUserLeafEffect(PageView, w)
        /\ UNCHANGED <<airdropPublicKeyString, detailFetches, claimPc, claimCapture, claimEnd,
                       userRetries, nextErrorId, now>>
        /\ PagePinned

\* The route parameter changes: the details effect runs, and the user-allocation
\* effect after it when airdropData changed
AirdropIdChanges ==
    \E id \in Routes \ {airdropPublicKeyString} :
        /\ airdropPublicKeyString' = id
        /\ IF IsRouteString(id)
           THEN /\ fetchesStarted < MaxFetches
                /\ fetchesStarted' = fetchesStarted + 1
                /\ detailFetches' = detailFetches \cup {[n |-> fetchesStarted + 1, airdrop |-> id]}
                /\ HandlerSets(IF airdropData # Undefined
                               THEN UserLeafEffect(FetchDetailsStarts(PageView), wallet)
                               ELSE FetchDetailsStarts(PageView))
                /\ UNCHANGED <<leafFetches, latestLeaf, nextErrorId, now>>
           ELSE LET v == DetailsEffectInvalid(PageView, id, now) IN
                /\ IF airdropData # Null
                   THEN RunUserLeafEffect(v, wallet)
                   ELSE /\ HandlerSets(v)
                        /\ UNCHANGED <<fetchesStarted, leafFetches, latestLeaf>>
                /\ now' = now + 1
                /\ UNCHANGED <<detailFetches, nextErrorId>>
        /\ UNCHANGED <<wallet, claimPc, claimCapture, claimEnd, userRetries>>
        /\ PagePinned

\* A pending fetchDetails continues after its await; the user-allocation effect runs
\* when airdropData changed
DetailsFetchCompletes ==
    \E fetch \in detailFetches, lookup \in PageDistributorOutcomes :
        LET result == FetchDetailsResult(fetch, lookup, nextErrorId, now)
            v == FetchDetailsContinues(PageView, result)
        IN /\ detailFetches' = detailFetches \ {fetch}
           /\ IF v.airdropData # airdropData
              THEN RunUserLeafEffect(v, wallet)
              ELSE /\ HandlerSets(v)
                   /\ UNCHANGED <<fetchesStarted, leafFetches, latestLeaf>>
           /\ IF ~IsAbsent(result.error)
              THEN nextErrorId' = nextErrorId + 2 /\ now' = now + 1
              ELSE UNCHANGED <<nextErrorId, now>>
           /\ UNCHANGED <<wallet, airdropPublicKeyString, claimPc, claimCapture, claimEnd,
                          userRetries>>
           /\ PagePinned

\* A pending fetchUserLeaf continues after its await
LeafFetchCompletes ==
    \E fetch \in leafFetches :
        \E lookup \in PageClaimOutcomes(fetch.airdrop, fetch.wallet) :
            LET result == FetchUserLeafResult(fetch, lookup, nextErrorId, now) IN
            /\ leafFetches' = leafFetches \ {fetch}
            /\ HandlerSets(FetchUserLeafSets(PageView, result))
            /\ latestLeaf' = IF latestLeaf.fetch = fetch
                             THEN [latestLeaf EXCEPT !.result = result] ELSE latestLeaf
            /\ IF ~IsAbsent(result.error)
               THEN nextErrorId' = nextErrorId + 2 /\ now' = now + 1
               ELSE UNCHANGED <<nextErrorId, now>>
            /\ UNCHANGED <<wallet, airdropPublicKeyString, detailFetches, fetchesStarted, claimPc,
                           claimCapture, claimEnd, userRetries>>
            /\ PagePinned

CLAIM_PARAMS_ARG == <<"c","l","a","i","m","P","a","r","a","m","s">>
WALLET_ARG == <<"w","a","l","l","e","t">>
UNKNOWN_SIGNATURE == "unknown"

\* What client.claim may do
ClaimOutcomes ==
    {LookupReturns([kind |-> "object", txId |-> JsText("T")]), LookupReturns(Undefined),
     LookupThrows(JsError(BOOM))}

\* getMerkleProofForUser: the placeholder proof, whatever the arguments
getMerkleProofForUser(distributorPublicKeyString, userWalletPublicKeyString) ==
    [kind |-> "object", proof |-> <<>>, amountUnlocked |-> BN(0), amountLocked |-> BN(0)]

\* claimAirdrop(claimParams, wallet) when client.claim does submission, as a promise
claimAirdrop(claimParams, walletAdapter, submission, id, t) ==
    LET check == IF validateRequired(claimParams, CLAIM_PARAMS_ARG, t).threw
                 THEN validateRequired(claimParams, CLAIM_PARAMS_ARG, t)
                 ELSE IF validateRequired(walletAdapter, WALLET_ARG, t).threw
                 THEN validateRequired(walletAdapter, WALLET_ARG, t)
                 ELSE validatePublicKey(claimParams.distributorPublicKey.text,
                                        DISTRIBUTOR_FIELD, t)
        context == [distributorPublicKey |-> claimParams.distributorPublicKey]
    IN UnwrapOrThrow(
           IF check.threw
           THEN FailureResult(WrapperClassify(check.error, "claimAirdrop", context, id, t))
           ELSE IF submission.kind = "throws"
           THEN SuccessResult([success |-> FALSE, error |-> submission.thrown])
           ELSE SuccessResult([success |-> TRUE,
                               signature |-> IF Truthy(submission.value) THEN submission.value.txId.text
                                             ELSE UNKNOWN_SIGNATURE]))

\* handleClaim's optimistic update: setClaimed(true)
ClaimOptimistic(v) == [v EXCEPT !.claimed = TRUE]

\* handleClaim's success branch: setUserLeafData({ ...userLeafData, isClaimed: true })
\* with the userLeafData of the render that was clicked
ClaimSucceeded(v, captured) ==
    IF Truthy(captured) THEN [v EXCEPT !.userLeafData = [captured EXCEPT !.isClaimed = TRUE]]
    ELSE v

\* A rollback that leaves the flag set.
ClaimFailedKeepsFlag(v) == v

\* handleClaim's rollback, in its else branch and in its catch: setClaimed(false)
ClaimFailed(v) == [v EXCEPT !.claimed = FALSE]

\* The Claim button is clicked: handleClaim up to await getMerkleProofForUser(...).
\* One claim is followed per behaviour.
ClaimBegin ==
    /\ claimPc = "idle"
    /\ ClaimShown
    /\ ~(IsAbsent(airdropData) \/ ~HasPublicKey(airdropData) \/ IsAbsent(wallet)
         \/ ~Truthy(userLeafData))
    /\ claimPc' = "awaitProof"
    /\ claimCapture' = [kind |-> "closure", airdropData |-> airdropData, wallet |-> wallet,
                        userLeafData |-> userLeafData]
    /\ UNCHANGED <<wallet, airdropPublicKeyString, airdropData, detailFetches, leafFetches,
                   fetchesStarted, latestLeaf, claimedWritten, claimEnd, userRetries, errors,
                   userLeafData, loading, claimed, nextErrorId, now>>
    /\ PagePinned

\* The proof arrives: the optimistic update, then handleClaim up to await claimAirdrop(...)
ClaimProofReturns ==
    /\ claimPc = "awaitProof"
    /\ LET proofData == getMerkleProofForUser(claimCapture.airdropData.publicKey.key,
                                              claimCapture.wallet.text)
       IN IF ~Truthy(proofData)
          THEN /\ claimPc' = "finished"
               /\ claimEnd' = [kind |-> "end", result |-> "noProof", claimed |-> claimed,
                               userLeafData |-> userLeafData, claimedWritten |-> FALSE]
               /\ UNCHANGED <<airdropData, userLeafData, loading, errors, claimed>>
          ELSE /\ claimPc' = "awaitClaim"
               /\ SetView(ClaimOptimistic(PageView))
               /\ UNCHANGED claimEnd
    /\ claimedWritten' = FALSE
    /\ UNCHANGED <<wallet, airdropPublicKeyString, detailFetches, leafFetches, fetchesStarted,
                   latestLeaf, claimCapture, userRetries, nextErrorId, now>>
    /\ PagePinned

\* The submission settles: handleClaim from the await of claimAirdrop to its end
ClaimSettles ==
    /\ claimPc = "awaitClaim"
    /\ \E submission \in ClaimOutcomes :
         LET promise == claimAirdrop([kind |-> "object",
                                      distributorPublicKey |->
                                          JsText(claimCapture.airdropData.publicKey.key)],
                                     JsOther("wallet"), submission, nextErrorId, now)
             v == IF promise.state = "rejected" THEN ClaimFailed(PageView)
                  ELSE IF promise.value.success
                  THEN ClaimSucceeded(PageView, claimCapture.userLeafData)
                  ELSE ClaimFailed(PageView)
         IN /\ SetView(v)
            /\ claimEnd' = [kind |-> "end",
                            result |-> IF promise.state = "rejected" THEN "threw"
                                       ELSE IF promise.value.success THEN "success"
                                       ELSE "failure",
                            claimed |-> v.claimed, userLeafData |-> v.userLeafData,
                            claimedWritten |-> claimedWritten]
            /\ IF promise.state = "rejected"
               THEN nextErrorId' = nextErrorId + 1 /\ now' = now + 1
               ELSE UNCHANGED <<nextErrorId, now>>
    /\ claimPc' = "finished"
    /\ UNCHANGED <<wallet, airdropPublicKeyString, detailFetches, leafFetches, fetchesStarted,
                   latestLeaf, claimCapture, claimedWritten, userRetries>>
    /\ PagePinned

\* retryUserDataFetch: the state is set as at the start of a fetch; none of the
\* dependencies of the user-allocation effect changes, so the effect does not run
RetryUserDataFetchSets(v, w) ==
    IF ~IsAbsent(w) /\ Truthy(v.airdropData)
    THEN [v EXCEPT !.errors.userLeaf = Null, !.userLeafData = Undefined,
                   !.loading.userLeaf = TRUE]
    ELSE v

\* Try Again of the allocation card is clicked
RetryUserDataFetch ==
    /\ UserRetryShown
    /\ userRetries < MaxRetryClicks
    /\ userRetries' = userRetries + 1
    /\ HandlerSets(RetryUserDataFetchSets(PageView, wallet))
    /\ UNCHANGED <<wallet, airdropPublicKeyString, detailFetches, leafFetches, fetchesStarted,
                   latestLeaf, claimPc, claimCapture, claimEnd, nextErrorId, now>>
    /\ PagePinned

\* The page after its first render and its two effects: the details fetch is pending
InitPage ==
    /\ airdropPublicKeyString = "A"
    /\ wallet \in {Null, JsText("U")}
    /\ airdropData = Undefined
    /\ userLeafData = Undefined
    /\ loading = [airdrop |-> TRUE, userLeaf |-> FALSE]
    /\ errors = [airdrop |-> Null, userLeaf |-> Null]
    /\ claimed = FALSE
    /\ detailFetches = {[n |-> 1, airdrop |-> "A"]}
    /\ leafFetches = {}
    /\ fetchesStarted = 1
    /\ latestLeaf = Null
    /\ claimPc = "idle"
    /\ claimCapture = Null
    /\ claimedWritten = FALSE
    /\ claimEnd = Null
    /\ userRetries = 0
    /\ accessCall = [fn |-> "none"]
    /\ sdkCalls = 0
    /\ sdkReply = Undefined
    /\ logs = <<>>
    /\ accessOutcome = [state |-> "pending"]
    /\ nextErrorId = 1
    /\ now = 1
    /\ ClassifyIdle
    /\ RetryIdle
    /\ BatchIdle
    /\ QueryIdle

NextPage ==
    \/ WalletChanges
    \/ AirdropIdChanges
    \/ DetailsFetchCompletes
    \/ LeafFetchCompletes
    \/ ClaimBegin
    \/ ClaimProofReturns
    \/ ClaimSettles
    \/ RetryUserDataFetch

SpecPage == InitPage /\ [][NextPage]_vars

\* The awaited calls settle; what the user does is under no obligation
SpecPageFair ==
    /\ SpecPage
    /\ WF_vars(DetailsFetchCompletes)
    /\ WF_vars(LeafFetchCompletes)
    /\ WF_vars(ClaimProofReturns)
    /\ WF_vars(ClaimSettles)

\* ---------------------------------------------------------------------------
\* C29. On the detail page, once every user-allocation fetch in flight has
\* completed, the displayed userLeafData and claimed flag are those of the
\* fetch started last, the one for the campaign and the wallet now current: a
\* response of an earlier fetch never overwrites the result of a later one.
\* The effect keeps no token of the fetch it started and fetchUserLeaf sets the
\* state whenever its await returns, so the fetch that completes last wins:
\* with the fetch for wallet U pending, the wallet changes to C, the fetch for C
\* completes and then the one for U, and the page shows U's allocation to C.
\* ---------------------------------------------------------------------------

\* The page is at rest on the campaign and wallet of the fetch started last, and
\* neither handleClaim nor retryUserDataFetch has touched what the fetch set
SettledOnLatest ==
    /\ leafFetches = {}
    /\ latestLeaf # Null
    /\ ~IsAbsent(wallet)
    /\ HasPublicKey(airdropData)
    /\ latestLeaf.fetch.wallet = wallet.text
    /\ latestLeaf.fetch.airdrop = airdropData.publicKey.key
    /\ claimPc = "idle"
    /\ userRetries = 0

\* What is displayed is what the continuation of the latest fetch set
ShowsLatest ==
    LET set == FetchUserLeafSets(PageView, latestLeaf.result) IN
    /\ userLeafData = set.userLeafData
    /\ claimed = set.claimed

C29_LatestFetchWins == SettledOnLatest => ShowsLatest

\* The page at rest showing the allocation of another wallet than the connected one
C29_ShowsOtherWallet ==
    /\ SettledOnLatest
    /\ Truthy(userLeafData)
    /\ userLeafData.totalAllocation.n # Allocation(airdropData.publicKey.key, wallet.text)

\* What does hold: with at most one fetch ever in flight, the latest fetch is shown
C29_LatestWinsWithoutOverlap ==
    (SettledOnLatest /\ fetchesStarted <= 2) => ShowsLatest

\* ---------------------------------------------------------------------------
\* C30. After the manual retry of the user-allocation fetch (wallet connected,
\* campaign loaded) a new getUserAirdropLeafData fetch is started and
\* loading.userLeaf eventually returns to false, with userLeafData or
\* errors.userLeaf set: the page never stays loading indefinitely.
\* retryUserDataFetch sets loading.userLeaf and clears the data and the error,
\* and changes none of airdropData, userWalletPublicKey and walletConnected, the
\* dependencies of the effect that fetches: no fetch is started, and with none
\* in flight nothing sets loading.userLeaf to false until the user changes the
\* wallet or the campaign.
\* ---------------------------------------------------------------------------

\* retryUserDataFetch has run and the card shows its skeleton
LoadingAfterRetry == userRetries > 0 /\ loading.userLeaf

C30_RetryEndsLoading == LoadingAfterRetry ~> ~loading.userLeaf

\* The same as a step: the retry adds a fetch to those in flight
C30_RetryStartsFetch == [][RetryUserDataFetch => leafFetches' # leafFetches]_vars

\* The card loading with no fetch in flight and no call pending: only a change of
\* wallet or campaign leaves this state
C30_StuckLoading ==
    /\ LoadingAfterRetry
    /\ leafFetches = {}
    /\ detailFetches = {}
    /\ claimPc \in {"idle", "finished"}

\* What does hold: before any retry the card is loading only while a fetch is in flight
C30_LoadingHasFetchBeforeRetry ==
    (userRetries = 0 /\ loading.userLeaf) => leafFetches # {}

\* ---------------------------------------------------------------------------
\* C27. In handleClaim the claimed flag is set to true before the submission
\* is issued; when the submission fails (success false, or an exception)
\* claimed is false again once handleClaim finishes; when it succeeds claimed
\* stays true and userLeafData.isClaimed becomes true.
\* handleClaim does not write claimed on success, so the flag is what the other
\* handlers left: a wallet or campaign change, or a fetch continuation, that
\* ran while the submission was pending may have set it to false. And the
\* userLeafData it sets is the one of the render that was clicked.
\* ---------------------------------------------------------------------------

ClaimEnded(results) == claimEnd # Null /\ claimEnd.result \in results

\* While the submission is pending the flag is set, unless another handler reset it
FlagSetAtSubmission == (claimPc = "awaitClaim" /\ ~claimedWritten) => claimed

\* A failed submission leaves the flag false
RolledBack == ClaimEnded({"failure", "threw"}) => ~claimEnd.claimed

\* The claim as stated
C27_FlagFollowsSubmission ==
    /\ FlagSetAtSubmission
    /\ RolledBack
    /\ ClaimEnded({"success"}) =>
           /\ claimEnd.claimed
           /\ Truthy(claimEnd.userLeafData) /\ claimEnd.userLeafData.isClaimed

\* The claim with the success case as the code has it
C27_FlagFollowsSubmissionUnlessReset ==
    /\ FlagSetAtSubmission
    /\ RolledBack
    /\ ClaimEnded({"success"}) =>
           /\ ~claimEnd.claimedWritten => claimEnd.claimed
           /\ claimEnd.userLeafData = [claimCapture.userLeafData EXCEPT !.isClaimed = TRUE]

\* A submission that succeeded with nothing else handled meanwhile
C27_Witness ==
    /\ ClaimEnded({"success"})
    /\ ~claimEnd.claimedWritten
    /\ claimEnd.claimed
    /\ claimEnd.userLeafData.isClaimed

\* A submission that failed
C27_WitnessRolledBack == ClaimEnded({"failure"}) /\ ~claimEnd.claimed

\* A submission that succeeded after the flag was reset
C27_WitnessReset == ClaimEnded({"success"}) /\ claimEnd.claimedWritten /\ ~claimEnd.claimed

\* The submission pending with the flag set
C27_WitnessPending == claimPc = "awaitClaim" /\ claimed /\ ~claimedWritten

====
